---- MODULE Spec2Model ----
(***************************************************************************)
(* The entity graph of firm_core (src/firm_core/src/graph): entities are   *)
(* nodes of a directed multigraph, build() derives the edges from the      *)
(* reference values held in entity fields, and the queries read the graph. *)
(*                                                                         *)
(* Conventions of the model                                                *)
(*  - An EntityId is a String ordered lexicographically (derive(Ord)); the *)
(*    model writes ids as the naturals 1..3 and uses < for that order.     *)
(*  - A NodeIndex / EdgeIndex is the position in the sequence `nodes` /    *)
(*    `edges` (petgraph hands out indices in insertion order).             *)
(*  - Entity.fields is a HashMap: its iteration order is arbitrary, so     *)
(*    build() chooses an order of the fields of every entity.              *)
(*  - Where the text of an identifier matters (id.rs, the conversion of    *)
(*    parsed sources, compute_unique_entity_id) a String is the sequence   *)
(*    of its characters.                                                   *)
(***************************************************************************)
EXTENDS Integers, Sequences, FiniteSets, TLC

(* nodes, edges       EntityGraph.graph: the petgraph node and edge lists   *)
(* entity_map         EntityGraph.entity_map: EntityId -> NodeIndex         *)
(* entity_type_map    EntityGraph.entity_type_map: EntityType -> node list  *)
(* op, ret            the last call and what it returned; for a function    *)
(*                    that is followed step by step, the step it is at and  *)
(*                    its local variables                                   *)
(* stage              whether build() ran and whether an add followed it    *)
(* dropped            the references for which a build() found no target    *)
(* input              the arguments drawn for a function that is applied    *)
(*                    on its own                                            *)
(* workspace          Workspace.files: PathBuf -> WorkspaceFile             *)
VARIABLES nodes, edges, entity_map, entity_type_map, op, ret, stage, dropped,
          input, workspace

vars ==
    <<nodes, edges, entity_map, entity_type_map, op, ret, stage, dropped,
      input, workspace>>

(* The four fields of EntityGraph that the operations change. *)
graph_vars == <<nodes, edges, entity_map, entity_type_map>>

-----------------------------------------------------------------------------
(* Bounds *)

(* Longest list handed to add_entities. *)
MaxBatch == 3

(* Longest chain of field references inside one entity. *)
MaxChain == 12

(* Longest chain of field references going back and forth between two   *)
(* entities, in fields of each.                                          *)
MaxCross == 6

-----------------------------------------------------------------------------
(* Identifier model *)

EntityIds == {1, 2, 3}

FieldIds == {"f", "g"}

EntityTypes == {"person", "organization", "project"}

(* Placeholder in the slots of a record that its variant does not use. *)
NoId == 0

NoField == "-"

-----------------------------------------------------------------------------
(* FieldValue and ReferenceValue *)

StringValue(s) ==
    [tag |-> "String", text |-> s, id |-> NoId, field |-> NoField, items |-> <<>>]

EntityRef(target_id) ==
    [tag |-> "EntityRef", text |-> "", id |-> target_id, field |-> NoField, items |-> <<>>]

FieldRef(target_entity_id, target_field_id) ==
    [tag |-> "FieldRef", text |-> "", id |-> target_entity_id,
     field |-> target_field_id, items |-> <<>>]

ListValue(xs) ==
    [tag |-> "List", text |-> "", id |-> NoId, field |-> NoField, items |-> xs]

IsReference(v) == v.tag \in {"EntityRef", "FieldRef"}

-----------------------------------------------------------------------------
(* Entity *)

Entity(id, entity_type, fields) ==
    [id |-> id, entity_type |-> entity_type, fields |-> fields]

(* The entities that callers hand to the graph: two per id, so that a      *)
(* second entity with a stored id can differ in type and in fields.        *)
(* Between them they hold entity and field references, references to ids   *)
(* that may be absent, several references to one target, references in     *)
(* lists and in lists of lists, mutual references and self references.     *)
E1a == Entity(1, "organization", [f |-> StringValue("x")])

E1b ==
    Entity(1, "person",
           [f |-> EntityRef(2), g |-> ListValue(<<EntityRef(2), EntityRef(3)>>)])

E2a == Entity(2, "person", [f |-> EntityRef(1), g |-> FieldRef(1, "f")])

E2b == Entity(2, "organization", [f |-> FieldRef(2, "g"), g |-> FieldRef(2, "f")])

E3a ==
    Entity(3, "person",
           [f |-> ListValue(<<ListValue(<<EntityRef(1), FieldRef(2, "g")>>),
                              EntityRef(1)>>),
            g |-> EntityRef(3)])

E3b == Entity(3, "person", [g |-> FieldRef(2, "g")])

EntityPool == {E1a, E1b, E2a, E2b, E3a, E3b}

(* The entities that lists handed to add_entities are made of: one per id. *)
BatchPool == {E1b, E2a, E3a}

RECURSIVE SeqsUpTo(_, _)
SeqsUpTo(S, n) ==
    IF n = 0 THEN {<<>>}
    ELSE LET shorter == SeqsUpTo(S, n - 1)
         IN  shorter \cup {Append(s, x) : s \in {t \in shorter : Len(t) = n - 1}, x \in S}

Batches == SeqsUpTo(BatchPool, MaxBatch)

-----------------------------------------------------------------------------
(* Relationship *)

EntityReference(from_field) ==
    [kind |-> "EntityReference", from_field |-> from_field, to_field |-> NoField]

FieldReference(from_field, to_field) ==
    [kind |-> "FieldReference", from_field |-> from_field, to_field |-> to_field]

Edge(source, target, weight) ==
    [source |-> source, target |-> target, weight |-> weight]

-----------------------------------------------------------------------------
(* Results *)

Ok == [kind |-> "Ok", id |-> NoId]

EntityAlreadyExists(id) == [kind |-> "EntityAlreadyExists", id |-> id]

(* The last call: its name, the entity handed to add_entity (a sequence of *)
(* at most one entity), how many entities the call was handed, how many it *)
(* inserted, and for build() whether the graph was built already with no   *)
(* entity added since.                                                     *)
Call(name, entity, len, added, again) ==
    [name |-> name, entity |-> entity, len |-> len, added |-> added, again |-> again]

-----------------------------------------------------------------------------
(* HashMap helpers *)

EmptyMap == [k \in {} |-> 0]

contains_key(m, k) == k \in DOMAIN m

insert(m, k, v) == [x \in DOMAIN m \cup {k} |-> IF x = k THEN v ELSE m[x]]

(* The value of an EntityGraph: the petgraph node and edge lists and the   *)
(* two indices.                                                            *)
EntityGraph(ns, es, emap, etmap) ==
    [nodes |-> ns, edges |-> es, entity_map |-> emap, entity_type_map |-> etmap]

Outcome(g, result) == [graph |-> g, result |-> result]

-----------------------------------------------------------------------------
(* EntityGraph::add_entity, EntityGraph::add_entities *)

(* entity_type_map.entry(entity_type).or_insert_with(Vec::new).push(node_index) *)
type_index_push(etmap, entity_type, node_index) ==
    insert(etmap, entity_type,
           Append(IF contains_key(etmap, entity_type) THEN etmap[entity_type] ELSE <<>>,
                  node_index))

(* Faulty variant: the type index is updated before the duplicate check. *)
add_entity_indexes_first(g, entity) ==
    LET node_index == Len(g.nodes) + 1
        etmap == type_index_push(g.entity_type_map, entity.entity_type, node_index)
    IN  IF contains_key(g.entity_map, entity.id)
        THEN Outcome(EntityGraph(g.nodes, g.edges, g.entity_map, etmap),
                     EntityAlreadyExists(entity.id))
        ELSE Outcome(EntityGraph(Append(g.nodes, entity), g.edges,
                                 insert(g.entity_map, entity.id, node_index), etmap),
                     Ok)

(* Faulty variant: a successful add drops the edges of the last build. *)
add_entity_clears_edges(g, entity) ==
    IF contains_key(g.entity_map, entity.id)
    THEN Outcome(g, EntityAlreadyExists(entity.id))
    ELSE LET node_index == Len(g.nodes) + 1
         IN  Outcome(EntityGraph(Append(g.nodes, entity),
                                 <<>>,
                                 insert(g.entity_map, entity.id, node_index),
                                 type_index_push(g.entity_type_map, entity.entity_type,
                                                 node_index)),
                     Ok)

add_entity(g, entity) ==
    IF contains_key(g.entity_map, entity.id)
    THEN Outcome(g, EntityAlreadyExists(entity.id))
    ELSE LET node_index == Len(g.nodes) + 1
         IN  Outcome(EntityGraph(Append(g.nodes, entity),
                                 g.edges,
                                 insert(g.entity_map, entity.id, node_index),
                                 type_index_push(g.entity_type_map, entity.entity_type,
                                                 node_index)),
                     Ok)

RECURSIVE add_entities_skips_duplicates(_, _)
(* Faulty variant: a rejected entity is skipped, the rest is added. *)
add_entities_skips_duplicates(g, entities) ==
    IF entities = <<>>
    THEN Outcome(g, Ok)
    ELSE LET first == add_entity(g, Head(entities))
             rest == add_entities_skips_duplicates(first.graph, Tail(entities))
         IN  IF first.result.kind # "Ok" THEN Outcome(rest.graph, first.result) ELSE rest

RECURSIVE add_entities(_, _)
add_entities(g, entities) ==
    IF entities = <<>>
    THEN Outcome(g, Ok)
    ELSE LET first == add_entity(g, Head(entities))
         IN  IF first.result.kind # "Ok"
             THEN first
             ELSE add_entities(first.graph, Tail(entities))

-----------------------------------------------------------------------------
(* The references held by field values *)

RECURSIVE References(_)
(* The Reference values that occur in a field value, at any depth. *)
References(v) ==
    IF IsReference(v) THEN {v}
    ELSE IF v.tag = "List" THEN UNION {References(v.items[i]) : i \in DOMAIN v.items}
    ELSE {}

(* The references build() finds no target for:                             *)
(* <<declaring entity id, field id, target id>>.                           *)
Dangling(g) ==
    UNION {UNION {{<<g.nodes[n].id, f, r.id>> :
                      r \in {x \in References(g.nodes[n].fields[f]) :
                                ~contains_key(g.entity_map, x.id)}} :
                  f \in DOMAIN g.nodes[n].fields} :
           n \in DOMAIN g.nodes}

RECURSIVE Occurrences(_, _)
RECURSIVE OccurrencesIn(_, _)
(* How often the Reference value r occurs in a field value, at any depth. *)
Occurrences(v, r) ==
    IF v = r THEN 1
    ELSE IF v.tag = "List" THEN OccurrencesIn(v.items, r)
    ELSE 0

OccurrencesIn(items, r) ==
    IF items = <<>> THEN 0 ELSE Occurrences(Head(items), r) + OccurrencesIn(Tail(items), r)

-----------------------------------------------------------------------------
(* EntityGraph::build, EntityGraph::collect_relationships_from_field *)

RECURSIVE collect_flat_items(_, _, _, _)
(* Faulty variant: the items of a list are looked at, the items of a list  *)
(* inside a list are not.                                                  *)
collect_flat_items(emap, from_node, field_name, items) ==
    IF items = <<>>
    THEN <<>>
    ELSE LET item == Head(items)
         IN  (IF IsReference(item) /\ contains_key(emap, item.id)
              THEN <<Edge(from_node, emap[item.id],
                          IF item.tag = "EntityRef"
                          THEN EntityReference(field_name)
                          ELSE FieldReference(field_name, item.field))>>
              ELSE <<>>)
             \o collect_flat_items(emap, from_node, field_name, Tail(items))

collect_relationships_flat(emap, from_node, field_name, field_value) ==
    collect_flat_items(emap, from_node, field_name,
                       IF field_value.tag = "List" THEN field_value.items ELSE <<field_value>>)


RECURSIVE collect_relationships_from_field(_, _, _, _)
RECURSIVE collect_relationships_from_items(_, _, _, _)

(* Faulty variant: a field reference contributes no edge. *)
collect_relationships_entity_references_only(emap, from_node, field_name, field_value) ==
    CASE field_value.tag = "EntityRef" ->
            IF contains_key(emap, field_value.id)
            THEN <<Edge(from_node, emap[field_value.id], EntityReference(field_name))>>
            ELSE <<>>
      [] field_value.tag = "List" ->
            collect_relationships_from_items(emap, from_node, field_name, field_value.items)
      [] OTHER -> <<>>

(* The edges one field value contributes, in the order they are pushed to  *)
(* edges_to_add.                                                           *)
collect_relationships_from_field(emap, from_node, field_name, field_value) ==
    CASE field_value.tag = "EntityRef" ->
            IF contains_key(emap, field_value.id)
            THEN <<Edge(from_node, emap[field_value.id], EntityReference(field_name))>>
            ELSE <<>>
      [] field_value.tag = "FieldRef" ->
            IF contains_key(emap, field_value.id)
            THEN <<Edge(from_node, emap[field_value.id],
                        FieldReference(field_name, field_value.field))>>
            ELSE <<>>
      [] field_value.tag = "List" ->
            collect_relationships_from_items(emap, from_node, field_name, field_value.items)
      [] OTHER -> <<>>

(* for item in items { self.collect_relationships_from_field(.., item, ..) } *)
collect_relationships_from_items(emap, from_node, field_name, items) ==
    IF items = <<>>
    THEN <<>>
    ELSE collect_relationships_from_field(emap, from_node, field_name, Head(items))
         \o collect_relationships_from_items(emap, from_node, field_name, Tail(items))

(* The orders in which a HashMap with keys in FieldIds can be iterated. *)
FieldOrders ==
    {s \in SeqsUpTo(FieldIds, Cardinality(FieldIds)) :
        /\ Len(s) = Cardinality(FieldIds)
        /\ \A i, j \in DOMAIN s : i # j => s[i] # s[j]}

RECURSIVE collect_fields(_, _, _, _)
(* for (field_name, field_value) in &entity.fields, visiting the fields in *)
(* the order `order`.                                                      *)
collect_fields(emap, from_node, entity, order) ==
    IF order = <<>>
    THEN <<>>
    ELSE (IF Head(order) \in DOMAIN entity.fields
          THEN collect_relationships_from_field(emap, from_node, Head(order),
                                                entity.fields[Head(order)])
          ELSE <<>>)
         \o collect_fields(emap, from_node, entity, Tail(order))

RECURSIVE collect_nodes(_, _, _, _)
(* for (from_node_index, node) in self.graph.raw_nodes().iter().enumerate() *)
collect_nodes(emap, ns, orders, from_node) ==
    IF from_node > Len(ns)
    THEN <<>>
    ELSE collect_fields(emap, from_node, ns[from_node], orders[from_node])
         \o collect_nodes(emap, ns, orders, from_node + 1)

(* Faulty variant: the edges of the last build are kept. *)
clear_edges_keeps(es) == es

(* self.graph.clear_edges() *)
clear_edges(es) == <<>>

(* Faulty variant: a reference without a target makes the build give up. *)
build_gives_up_on_dangling(g, orders) ==
    EntityGraph(g.nodes,
                IF Dangling(g) = {}
                THEN collect_nodes(g.entity_map, g.nodes, orders, 1)
                ELSE <<>>,
                g.entity_map,
                g.entity_type_map)

(* build: the edges are cleared, then every collected edge is added. *)
build(g, orders) ==
    EntityGraph(g.nodes,
                clear_edges(g.edges) \o collect_nodes(g.entity_map, g.nodes, orders, 1),
                g.entity_map,
                g.entity_type_map)

-----------------------------------------------------------------------------
(* EntityGraph::clear *)

(* Faulty variant: the type index is not cleared. *)
clear_keeps_type_index(g) == EntityGraph(<<>>, <<>>, EmptyMap, g.entity_type_map)

clear(g) == EntityGraph(<<>>, <<>>, EmptyMap, EmptyMap)

-----------------------------------------------------------------------------
(* Queries: src/firm_core/src/graph/query.rs *)

None == [some |-> FALSE, value |-> <<>>]

Some(v) == [some |-> TRUE, value |-> v]

Directions == {"Outgoing", "Incoming", "None"}

(* petgraph Graph::node_weight: None for an index that is not a node. *)
node_weight(g, node_index) ==
    IF node_index \in DOMAIN g.nodes THEN <<g.nodes[node_index]>> ELSE <<>>

(* get_entity: an Option, written as a sequence of at most one entity. *)
get_entity(g, id) ==
    IF contains_key(g.entity_map, id) THEN node_weight(g, g.entity_map[id]) ELSE <<>>

RECURSIVE filter_map_node_weight(_, _)
filter_map_node_weight(g, node_indices) ==
    IF node_indices = <<>>
    THEN <<>>
    ELSE node_weight(g, Head(node_indices)) \o filter_map_node_weight(g, Tail(node_indices))

list_by_type(g, entity_type) ==
    IF contains_key(g.entity_type_map, entity_type)
    THEN filter_map_node_weight(g, g.entity_type_map[entity_type])
    ELSE <<>>

RECURSIVE edges_from(_, _, _, _)
(* The edges at positions k, k-1, .., 1 that leave (Outgoing) or enter     *)
(* (Incoming) node a: petgraph walks a node's edge list newest edge first. *)
edges_from(es, k, a, dir) ==
    IF k = 0
    THEN <<>>
    ELSE (IF (dir = "Outgoing" /\ es[k].source = a) \/ (dir = "Incoming" /\ es[k].target = a)
          THEN <<es[k]>>
          ELSE <<>>)
         \o edges_from(es, k - 1, a, dir)

(* petgraph Graph::edges_directed *)
edges_directed(g, a, dir) == edges_from(g.edges, Len(g.edges), a, dir)

(* .map(|edge| &self.graph[edge.target()]) and .map(|edge| &self.graph[edge.source()]) *)
neighbours(g, a, dir) ==
    LET found == edges_directed(g, a, dir)
    IN  [i \in DOMAIN found |->
            g.nodes[IF dir = "Outgoing" THEN found[i].target ELSE found[i].source]]

RECURSIVE insert_sorted(_, _)
(* x goes behind every element whose id is not greater: the sort is stable. *)
insert_sorted(s, x) ==
    IF s = <<>> THEN <<x>>
    ELSE IF x.id < Head(s).id THEN <<x>> \o s
    ELSE <<Head(s)>> \o insert_sorted(Tail(s), x)

RECURSIVE sort_from(_, _)
sort_from(sorted, rest) ==
    IF rest = <<>> THEN sorted ELSE sort_from(insert_sorted(sorted, Head(rest)), Tail(rest))

(* Faulty variant: the list is not sorted before it is deduplicated. *)
sort_by_key_skipped(entities) == entities

(* entities.sort_by_key(|entity| &entity.id) *)
sort_by_key(entities) == sort_from(<<>>, entities)

RECURSIVE dedup_by_key(_)
(* entities.dedup_by_key(|entity| &entity.id): of consecutive entities     *)
(* with one id the first is kept.                                          *)
dedup_by_key(entities) ==
    IF Len(entities) < 2 THEN entities
    ELSE IF entities[1].id = entities[2].id
         THEN dedup_by_key(<<entities[1]>> \o SubSeq(entities, 3, Len(entities)))
         ELSE <<entities[1]>> \o dedup_by_key(Tail(entities))

(* Faulty variant: with no direction given only the outgoing edges are followed. *)
related_unsorted_outgoing_only(g, node_index, direction) ==
    CASE direction = "Incoming" -> neighbours(g, node_index, "Incoming")
      [] OTHER -> neighbours(g, node_index, "Outgoing")

(* The list get_related collects before it sorts. *)
related_unsorted(g, node_index, direction) ==
    CASE direction = "Outgoing" -> neighbours(g, node_index, "Outgoing")
      [] direction = "Incoming" -> neighbours(g, node_index, "Incoming")
      [] OTHER -> neighbours(g, node_index, "Outgoing") \o neighbours(g, node_index, "Incoming")

(* Faulty variant: an entity without related entities is reported as absent. *)
get_related_none_when_empty(g, id, direction) ==
    IF contains_key(g.entity_map, id)
          /\ related_unsorted(g, g.entity_map[id], direction) # <<>>
    THEN Some(dedup_by_key(sort_by_key(related_unsorted(g, g.entity_map[id], direction))))
    ELSE None

get_related(g, id, direction) ==
    IF contains_key(g.entity_map, id)
    THEN Some(dedup_by_key(sort_by_key(related_unsorted(g, g.entity_map[id], direction))))
    ELSE None

-----------------------------------------------------------------------------
(* Reference resolution (graph/query.rs)                                   *)

(* GraphError values and Ok(value) of the resolvers, in one record shape;  *)
(* value is an Option written as a sequence of at most one element.        *)
GraphError(kind, id, field) == [kind |-> kind, id |-> id, field |-> field, value |-> <<>>]

ResolveOk(v) == [kind |-> "Ok", id |-> NoId, field |-> NoField, value |-> <<v>>]

EntityNotFound(id) == GraphError("EntityNotFound", id, NoField)

FieldNotFound(id, field) == GraphError("FieldNotFound", id, field)

CyclicReference == GraphError("CyclicReference", NoId, NoField)

MaxDepthExceeded == GraphError("MaxDepthExceeded", NoId, NoField)

NotAFieldReference == GraphError("NotAFieldReference", NoId, NoField)

NotAnEntityReference == GraphError("NotAnEntityReference", NoId, NoField)

GraphNotBuilt == GraphError("GraphNotBuilt", NoId, NoField)

(* The depth budget resolve_field_reference hands to the search. *)
DefaultMaxDepth == 10

(* Entity::get_field: an Option, a sequence of at most one value. *)
get_field(entity, id) ==
    IF id \in DOMAIN entity.fields THEN <<entity.fields[id]>> ELSE <<>>

(* Faulty variant: a field reference is resolved to its entity as well. *)
resolve_entity_reference_any_reference(g, field_value) ==
    IF IsReference(field_value)
    THEN IF get_entity(g, field_value.id) # <<>>
         THEN ResolveOk(get_entity(g, field_value.id)[1])
         ELSE EntityNotFound(field_value.id)
    ELSE NotAnEntityReference

resolve_entity_reference(g, field_value) ==
    IF field_value.tag = "EntityRef"
    THEN IF get_entity(g, field_value.id) # <<>>
         THEN ResolveOk(get_entity(g, field_value.id)[1])
         ELSE EntityNotFound(field_value.id)
    ELSE NotAnEntityReference

(* petgraph edges_connecting(a, b): the edges from a to b. *)
edges_connecting(g, a, b) ==
    {i \in DOMAIN g.edges : g.edges[i].source = a /\ g.edges[i].target = b}

(* The loop that looks for the FieldReference edge of a field reference. *)
edge_found(g, source_node, target_node, field_id, target_field_id) ==
    \E i \in edges_connecting(g, source_node, target_node) :
        /\ g.edges[i].weight.kind = "FieldReference"
        /\ g.edges[i].weight.from_field = field_id
        /\ g.edges[i].weight.to_field = target_field_id

(* What one call of the search leaves behind: its result, the visited set  *)
(* in insertion order, and the arguments of the innermost call.            *)
Search(result, visited, entity_id, field_id, max_depth) ==
    [result |-> result, visited |-> visited,
     last |-> [entity |-> entity_id, field |-> field_id, depth |-> max_depth]]

(* Faulty variant: no cycle check, the depth alone stops the search. *)
search_entry_depth_only(entity_id, field_id, max_depth, visited) ==
    IF max_depth = 0 THEN <<MaxDepthExceeded>> ELSE <<>>

(* Faulty variant: the cycle check runs before the depth check. *)
search_entry_cycle_first(entity_id, field_id, max_depth, visited) ==
    IF \E i \in DOMAIN visited : visited[i] = <<entity_id, field_id>>
    THEN <<CyclicReference>>
    ELSE IF max_depth = 0
    THEN <<MaxDepthExceeded>>
    ELSE <<>>

(* The two checks at the entry of search_field_reference: the error they   *)
(* return, or nothing when the search goes on.                             *)
search_entry(entity_id, field_id, max_depth, visited) ==
    IF max_depth = 0
    THEN <<MaxDepthExceeded>>
    ELSE IF \E i \in DOMAIN visited : visited[i] = <<entity_id, field_id>>
    THEN <<CyclicReference>>
    ELSE <<>>

(* Faulty variant: the field data is followed without looking for the edge. *)
field_reference_target_unchecked(g, entity_id, field_id, field) ==
    IF ~contains_key(g.entity_map, field.id)
    THEN <<EntityNotFound(field.id)>>
    ELSE <<>>

(* Faulty variant: a missing target entity is taken for a missing edge. *)
field_reference_target_missing_is_not_built(g, entity_id, field_id, field) ==
    IF ~contains_key(g.entity_map, entity_id)
    THEN <<EntityNotFound(entity_id)>>
    ELSE IF ~contains_key(g.entity_map, field.id)
    THEN <<GraphNotBuilt>>
    ELSE IF edge_found(g, g.entity_map[entity_id], g.entity_map[field.id],
                       field_id, field.field)
    THEN <<>>
    ELSE <<GraphNotBuilt>>

(* Faulty variant: without the edge the field reference itself is the result. *)
field_reference_target_returns_reference(g, entity_id, field_id, field) ==
    IF ~contains_key(g.entity_map, entity_id)
    THEN <<EntityNotFound(entity_id)>>
    ELSE IF ~contains_key(g.entity_map, field.id)
    THEN <<EntityNotFound(field.id)>>
    ELSE IF edge_found(g, g.entity_map[entity_id], g.entity_map[field.id],
                       field_id, field.field)
    THEN <<>>
    ELSE <<ResolveOk(field)>>

(* The lookups made when the field holds a field reference: the error they *)
(* return, or nothing when the FieldReference edge is found.               *)
field_reference_target(g, entity_id, field_id, field) ==
    IF ~contains_key(g.entity_map, entity_id)
    THEN <<EntityNotFound(entity_id)>>
    ELSE IF ~contains_key(g.entity_map, field.id)
    THEN <<EntityNotFound(field.id)>>
    ELSE IF edge_found(g, g.entity_map[entity_id], g.entity_map[field.id],
                       field_id, field.field)
    THEN <<>>
    ELSE <<GraphNotBuilt>>

(* Faulty variant: a field holding an entity reference is an error. *)
terminal_value_no_reference(field) ==
    IF field.tag = "EntityRef" THEN NotAFieldReference ELSE ResolveOk(field)

(* The last arm of the match on the field: any other value is the result. *)
terminal_value(field) == ResolveOk(field)

RECURSIVE search_field_reference(_, _, _, _, _)
search_field_reference(g, entity_id, field_id, max_depth, visited) ==
    IF search_entry(entity_id, field_id, max_depth, visited) # <<>>
    THEN Search(search_entry(entity_id, field_id, max_depth, visited)[1],
                visited, entity_id, field_id, max_depth)
    ELSE LET seen == Append(visited, <<entity_id, field_id>>)
             entity == get_entity(g, entity_id)
         IN  IF entity = <<>>
             THEN Search(EntityNotFound(entity_id), seen, entity_id, field_id, max_depth)
             ELSE IF get_field(entity[1], field_id) = <<>>
             THEN Search(FieldNotFound(entity_id, field_id), seen,
                         entity_id, field_id, max_depth)
             ELSE LET field == get_field(entity[1], field_id)[1]
                  IN  IF field.tag # "FieldRef"
                      THEN Search(terminal_value(field), seen,
                                  entity_id, field_id, max_depth)
                      ELSE IF field_reference_target(g, entity_id, field_id, field) # <<>>
                      THEN Search(field_reference_target(g, entity_id, field_id, field)[1],
                                  seen, entity_id, field_id, max_depth)
                      ELSE search_field_reference(g, field.id, field.field,
                                                  max_depth - 1, seen)

(* Faulty variant: the search starts with one step less. *)
resolve_field_reference_search_short(g, field_value) ==
    IF field_value.tag = "FieldRef"
    THEN search_field_reference(g, field_value.id, field_value.field,
                                DefaultMaxDepth - 1, <<>>)
    ELSE Search(NotAFieldReference, <<>>, NoId, NoField, 0)

(* resolve_field_reference with what its search leaves behind. *)
resolve_field_reference_search(g, field_value) ==
    IF field_value.tag = "FieldRef"
    THEN search_field_reference(g, field_value.id, field_value.field,
                                DefaultMaxDepth, <<>>)
    ELSE Search(NotAFieldReference, <<>>, NoId, NoField, 0)

resolve_field_reference(g, field_value) ==
    resolve_field_reference_search(g, field_value).result

-----------------------------------------------------------------------------
(* Reference resolution, one call of search_field_reference at a time      *)

(* The call of search_field_reference that is running: its arguments, the  *)
(* visited set it shares with its callers (in insertion order), and the    *)
(* result once it is there (a sequence of at most one result).             *)
SearchFrame(entity_id, field_id, max_depth, visited, result) ==
    [entity_id |-> entity_id, field_id |-> field_id, max_depth |-> max_depth,
     visited |-> visited, result |-> result]

(* The call returns. *)
search_return(frame, visited, result) ==
    SearchFrame(frame.entity_id, frame.field_id, frame.max_depth, visited, <<result>>)

(* Faulty variant: the inner call gets the depth of its caller. *)
search_descend_keeps_depth(frame, visited, field) ==
    SearchFrame(field.id, field.field, frame.max_depth, visited, <<>>)

(* self.search_field_reference(target_entity_id, target_field_id,          *)
(*                             max_depth - 1, visited)                     *)
search_descend(frame, visited, field) ==
    SearchFrame(field.id, field.field, frame.max_depth - 1, visited, <<>>)

(* The body of search_field_reference up to its return or its inner call. *)
search_step(g, frame) ==
    LET entry == search_entry(frame.entity_id, frame.field_id, frame.max_depth,
                              frame.visited)
        seen == Append(frame.visited, <<frame.entity_id, frame.field_id>>)
        entity == get_entity(g, frame.entity_id)
    IN  IF entry # <<>>
        THEN search_return(frame, frame.visited, entry[1])
        ELSE IF entity = <<>>
        THEN search_return(frame, seen, EntityNotFound(frame.entity_id))
        ELSE IF get_field(entity[1], frame.field_id) = <<>>
        THEN search_return(frame, seen, FieldNotFound(frame.entity_id, frame.field_id))
        ELSE LET field == get_field(entity[1], frame.field_id)[1]
                 target == IF field.tag = "FieldRef"
                           THEN field_reference_target(g, frame.entity_id,
                                                       frame.field_id, field)
                           ELSE <<>>
             IN  IF field.tag # "FieldRef"
                 THEN search_return(frame, seen, terminal_value(field))
                 ELSE IF target # <<>>
                 THEN search_return(frame, seen, target[1])
                 ELSE search_descend(frame, seen, field)

(* resolve_field_reference up to its return or its call of the search. *)
resolve_start(field_value) ==
    IF field_value.tag = "FieldRef"
    THEN SearchFrame(field_value.id, field_value.field, DefaultMaxDepth, <<>>, <<>>)
    ELSE SearchFrame(NoId, NoField, 0, <<>>, <<NotAFieldReference>>)

-----------------------------------------------------------------------------
(* Field types (field.rs) and entity schemas (schema/)                     *)

FieldTypes ==
    {"Boolean", "String", "Integer", "Float", "Currency", "Reference", "List",
     "DateTime", "Path"}

BooleanValue(b) ==
    [tag |-> "Boolean", text |-> IF b THEN "true" ELSE "false", id |-> NoId,
     field |-> NoField, items |-> <<>>]

(* FieldValue::get_type: both kinds of reference have the type Reference. *)
get_type(v) ==
    CASE v.tag = "EntityRef" -> "Reference"
      [] v.tag = "FieldRef" -> "Reference"
      [] v.tag = "Boolean" -> "Boolean"
      [] v.tag = "String" -> "String"
      [] v.tag = "List" -> "List"

is_type(v, expected) == get_type(v) = expected

(* FieldSchema and EntitySchema, without the display order of the fields.  *)
FieldSchema(field_type, field_mode) ==
    [field_type |-> field_type, field_mode |-> field_mode]

expected_type(field_schema) == field_schema.field_type

is_required(field_schema) == field_schema.field_mode = "Required"

EntitySchema(entity_type, fields) == [entity_type |-> entity_type, fields |-> fields]

(* ValidationError, without its message: the message is formatted from the *)
(* other parts.                                                            *)
ValidationError(entity_id, field, kind, expected, actual) ==
    [entity_id |-> entity_id, field |-> field,
     error_type |-> [kind |-> kind, expected |-> expected, actual |-> actual]]

mismatched_entity_type(entity_id, expected, actual) ==
    ValidationError(entity_id, NoField, "MismatchedEntityType", expected, actual)

(* MissingRequiredField { required } names the field once more. *)
missing_field(entity_id, field_id) ==
    ValidationError(entity_id, field_id, "MissingRequiredField", field_id, "")

mismatched_field_type(entity_id, field_id, expected, actual) ==
    ValidationError(entity_id, field_id, "MismatchedFieldType", expected, actual)

(* Faulty variant: a missing field is reported whatever its mode. *)
validate_field_optional_is_required(schema, entity, field_name) ==
    IF field_name \in DOMAIN entity.fields
    THEN IF ~is_type(entity.fields[field_name], expected_type(schema.fields[field_name]))
         THEN <<mismatched_field_type(entity.id, field_name,
                                      expected_type(schema.fields[field_name]),
                                      get_type(entity.fields[field_name]))>>
         ELSE <<>>
    ELSE <<missing_field(entity.id, field_name)>>

(* The body of the loop over the fields of the schema: what it pushes. *)
validate_field(schema, entity, field_name) ==
    IF field_name \in DOMAIN entity.fields
    THEN IF ~is_type(entity.fields[field_name], expected_type(schema.fields[field_name]))
         THEN <<mismatched_field_type(entity.id, field_name,
                                      expected_type(schema.fields[field_name]),
                                      get_type(entity.fields[field_name]))>>
         ELSE <<>>
    ELSE IF is_required(schema.fields[field_name])
         THEN <<missing_field(entity.id, field_name)>>
         ELSE <<>>

RECURSIVE validate_fields(_, _, _)
(* for (field_name, field_schema) in &self.fields, in the order `order`. *)
validate_fields(schema, entity, order) ==
    IF order = <<>>
    THEN <<>>
    ELSE validate_field(schema, entity, Head(order))
         \o validate_fields(schema, entity, Tail(order))

(* ValidationResult: Ok(()) or Err(errors). *)
ValidationResult(errors) ==
    [kind |-> IF errors = <<>> THEN "Ok" ELSE "Err", errors |-> errors]

(* Faulty variant: the first violation ends the validation. *)
validate_stops_at_first(schema, entity, order) ==
    LET errors ==
            (IF entity.entity_type # schema.entity_type
             THEN <<mismatched_entity_type(entity.id, schema.entity_type,
                                           entity.entity_type)>>
             ELSE <<>>)
            \o validate_fields(schema, entity, order)
    IN  ValidationResult(IF errors = <<>> THEN <<>> ELSE <<Head(errors)>>)

(* EntitySchema::validate, the fields of the schema visited in `order`. *)
validate(schema, entity, order) ==
    ValidationResult(
        (IF entity.entity_type # schema.entity_type
         THEN <<mismatched_entity_type(entity.id, schema.entity_type,
                                       entity.entity_type)>>
         ELSE <<>>)
        \o validate_fields(schema, entity, order))

(* The orders in which a HashMap with the keys `keys` can be iterated. *)
Orders(keys) ==
    {s \in SeqsUpTo(keys, Cardinality(keys)) :
        /\ Len(s) = Cardinality(keys)
        /\ \A i, j \in DOMAIN s : i # j => s[i] # s[j]}

-----------------------------------------------------------------------------
(* The built-in schemas (schema/builtin.rs)                                *)

(* EntitySchema::all_builtin: the built-in schemas, in the order of the    *)
(* vector, each with the metadata fields and its own fields.               *)
all_builtin ==
    <<
        EntitySchema("person",
            [notes |-> FieldSchema("String", "Optional"),
             created_at |-> FieldSchema("DateTime", "Optional"),
             updated_at |-> FieldSchema("DateTime", "Optional"),
             name |-> FieldSchema("String", "Required"),
             email |-> FieldSchema("String", "Optional"),
             phone |-> FieldSchema("String", "Optional"),
             urls |-> FieldSchema("List", "Optional")]),
        EntitySchema("organization",
            [notes |-> FieldSchema("String", "Optional"),
             created_at |-> FieldSchema("DateTime", "Optional"),
             updated_at |-> FieldSchema("DateTime", "Optional"),
             name |-> FieldSchema("String", "Required"),
             address |-> FieldSchema("String", "Optional"),
             email |-> FieldSchema("String", "Optional"),
             phone |-> FieldSchema("String", "Optional"),
             urls |-> FieldSchema("List", "Optional"),
             vat_id |-> FieldSchema("String", "Optional"),
             industry_ref |-> FieldSchema("Reference", "Optional")]),
        EntitySchema("industry",
            [notes |-> FieldSchema("String", "Optional"),
             created_at |-> FieldSchema("DateTime", "Optional"),
             updated_at |-> FieldSchema("DateTime", "Optional"),
             name |-> FieldSchema("String", "Required"),
             sector |-> FieldSchema("String", "Optional"),
             classification_code |-> FieldSchema("String", "Optional"),
             classification_system |-> FieldSchema("String", "Optional")]),
        EntitySchema("account",
            [notes |-> FieldSchema("String", "Optional"),
             created_at |-> FieldSchema("DateTime", "Optional"),
             updated_at |-> FieldSchema("DateTime", "Optional"),
             name |-> FieldSchema("String", "Required"),
             organization_ref |-> FieldSchema("Reference", "Required"),
             owner_ref |-> FieldSchema("Reference", "Optional"),
             status |-> FieldSchema("String", "Optional")]),
        EntitySchema("channel",
            [notes |-> FieldSchema("String", "Optional"),
             created_at |-> FieldSchema("DateTime", "Optional"),
             updated_at |-> FieldSchema("DateTime", "Optional"),
             name |-> FieldSchema("String", "Required"),
             type |-> FieldSchema("String", "Optional"),
             description |-> FieldSchema("String", "Optional")]),
        EntitySchema("lead",
            [notes |-> FieldSchema("String", "Optional"),
             created_at |-> FieldSchema("DateTime", "Optional"),
             updated_at |-> FieldSchema("DateTime", "Optional"),
             source_ref |-> FieldSchema("Reference", "Required"),
             status |-> FieldSchema("String", "Required"),
             person_ref |-> FieldSchema("Reference", "Optional"),
             account_ref |-> FieldSchema("Reference", "Optional"),
             score |-> FieldSchema("Integer", "Optional")]),
        EntitySchema("contact",
            [notes |-> FieldSchema("String", "Optional"),
             created_at |-> FieldSchema("DateTime", "Optional"),
             updated_at |-> FieldSchema("DateTime", "Optional"),
             source_ref |-> FieldSchema("Reference", "Optional"),
             person_ref |-> FieldSchema("Reference", "Optional"),
             account_ref |-> FieldSchema("Reference", "Optional"),
             role |-> FieldSchema("String", "Optional"),
             status |-> FieldSchema("String", "Optional")]),
        EntitySchema("interaction",
            [notes |-> FieldSchema("String", "Optional"),
             created_at |-> FieldSchema("DateTime", "Optional"),
             updated_at |-> FieldSchema("DateTime", "Optional"),
             type |-> FieldSchema("String", "Required"),
             subject |-> FieldSchema("String", "Required"),
             initiator_ref |-> FieldSchema("Reference", "Required"),
             primary_contact_ref |-> FieldSchema("Reference", "Required"),
             interaction_date |-> FieldSchema("DateTime", "Required"),
             outcome |-> FieldSchema("String", "Optional"),
             secondary_contacts_ref |-> FieldSchema("List", "Optional"),
             channel_ref |-> FieldSchema("Reference", "Optional"),
             opportunity_ref |-> FieldSchema("Reference", "Optional")]),
        EntitySchema("opportunity",
            [notes |-> FieldSchema("String", "Optional"),
             created_at |-> FieldSchema("DateTime", "Optional"),
             updated_at |-> FieldSchema("DateTime", "Optional"),
             source_ref |-> FieldSchema("Reference", "Required"),
             name |-> FieldSchema("String", "Required"),
             status |-> FieldSchema("String", "Required"),
             value |-> FieldSchema("Currency", "Optional"),
             probability |-> FieldSchema("Integer", "Optional")]),
        EntitySchema("strategy",
            [notes |-> FieldSchema("String", "Optional"),
             created_at |-> FieldSchema("DateTime", "Optional"),
             updated_at |-> FieldSchema("DateTime", "Optional"),
             name |-> FieldSchema("String", "Required"),
             description |-> FieldSchema("String", "Optional"),
             source_ref |-> FieldSchema("Reference", "Optional"),
             owner_ref |-> FieldSchema("Reference", "Optional"),
             status |-> FieldSchema("String", "Optional"),
             start_date |-> FieldSchema("DateTime", "Optional"),
             end_date |-> FieldSchema("DateTime", "Optional")]),
        EntitySchema("objective",
            [notes |-> FieldSchema("String", "Optional"),
             created_at |-> FieldSchema("DateTime", "Optional"),
             updated_at |-> FieldSchema("DateTime", "Optional"),
             name |-> FieldSchema("String", "Required"),
             description |-> FieldSchema("String", "Optional"),
             strategy_ref |-> FieldSchema("Reference", "Optional"),
             owner_ref |-> FieldSchema("Reference", "Optional"),
             status |-> FieldSchema("String", "Optional"),
             start_date |-> FieldSchema("DateTime", "Optional"),
             end_date |-> FieldSchema("DateTime", "Optional")]),
        EntitySchema("key_result",
            [notes |-> FieldSchema("String", "Optional"),
             created_at |-> FieldSchema("DateTime", "Optional"),
             updated_at |-> FieldSchema("DateTime", "Optional"),
             name |-> FieldSchema("String", "Required"),
             objective_ref |-> FieldSchema("Reference", "Required"),
             owner_ref |-> FieldSchema("Reference", "Optional"),
             start_value |-> FieldSchema("Float", "Optional"),
             target_value |-> FieldSchema("Float", "Optional"),
             current_value |-> FieldSchema("Float", "Optional"),
             unit |-> FieldSchema("String", "Optional")]),
        EntitySchema("project",
            [notes |-> FieldSchema("String", "Optional"),
             created_at |-> FieldSchema("DateTime", "Optional"),
             updated_at |-> FieldSchema("DateTime", "Optional"),
             name |-> FieldSchema("String", "Required"),
             status |-> FieldSchema("String", "Required"),
             description |-> FieldSchema("String", "Optional"),
             owner_ref |-> FieldSchema("Reference", "Optional"),
             objective_refs |-> FieldSchema("List", "Optional"),
             due_date |-> FieldSchema("DateTime", "Optional")]),
        EntitySchema("task",
            [notes |-> FieldSchema("String", "Optional"),
             created_at |-> FieldSchema("DateTime", "Optional"),
             updated_at |-> FieldSchema("DateTime", "Optional"),
             name |-> FieldSchema("String", "Required"),
             description |-> FieldSchema("String", "Optional"),
             source_ref |-> FieldSchema("Reference", "Optional"),
             assignee_ref |-> FieldSchema("Reference", "Optional"),
             due_date |-> FieldSchema("DateTime", "Optional"),
             is_completed |-> FieldSchema("Boolean", "Optional"),
             completed_at |-> FieldSchema("DateTime", "Optional")]),
        EntitySchema("review",
            [notes |-> FieldSchema("String", "Optional"),
             created_at |-> FieldSchema("DateTime", "Optional"),
             updated_at |-> FieldSchema("DateTime", "Optional"),
             name |-> FieldSchema("String", "Required"),
             date |-> FieldSchema("DateTime", "Required"),
             owner_ref |-> FieldSchema("Reference", "Optional"),
             source_refs |-> FieldSchema("List", "Optional"),
             attendee_refs |-> FieldSchema("List", "Optional")]),
        EntitySchema("file_asset",
            [notes |-> FieldSchema("String", "Optional"),
             created_at |-> FieldSchema("DateTime", "Optional"),
             updated_at |-> FieldSchema("DateTime", "Optional"),
             name |-> FieldSchema("String", "Required"),
             path |-> FieldSchema("Path", "Required"),
             description |-> FieldSchema("String", "Optional"),
             source_ref |-> FieldSchema("Reference", "Optional"),
             owner_ref |-> FieldSchema("Reference", "Optional")])
    >>

-----------------------------------------------------------------------------
(* Identifiers (id.rs)                                                     *)

(* A String that an identifier is made from is the sequence of its         *)
(* characters; the letters are those of ASCII.                             *)
LowercaseLetters ==
    <<"a", "b", "c", "d", "e", "f", "g", "h", "i", "j", "k", "l", "m", "n",
     "o", "p", "q", "r", "s", "t", "u", "v", "w", "x", "y", "z">>

UppercaseLetters ==
    <<"A", "B", "C", "D", "E", "F", "G", "H", "I", "J", "K", "L", "M", "N",
     "O", "P", "Q", "R", "S", "T", "U", "V", "W", "X", "Y", "Z">>

DecimalDigits == <<"0", "1", "2", "3", "4", "5", "6", "7", "8", "9">>

is_lowercase(c) == \E i \in DOMAIN LowercaseLetters : LowercaseLetters[i] = c

is_uppercase(c) == \E i \in DOMAIN UppercaseLetters : UppercaseLetters[i] = c

is_alphabetic(c) == is_lowercase(c) \/ is_uppercase(c)

is_digit(c) == \E i \in DOMAIN DecimalDigits : DecimalDigits[i] = c

(* char::to_lowercase *)
char_to_lowercase(c) ==
    IF is_uppercase(c)
    THEN LowercaseLetters[CHOOSE i \in DOMAIN UppercaseLetters : UppercaseLetters[i] = c]
    ELSE c

(* str::to_lowercase *)
to_lowercase(s) == [i \in DOMAIN s |-> char_to_lowercase(s[i])]

RECURSIVE Text(_)
(* The characters as one string: what Display and the keys of a HashMap    *)
(* see of an identifier.                                                   *)
Text(s) == IF s = <<>> THEN "" ELSE Head(s) \o Text(Tail(s))

(* convert_case: the characters that separate words and are dropped. *)
WordDelimiters == {"_", "-", " "}

(* convert_case: a word ends after the first character of s, which is no   *)
(* delimiter: a lower case letter before an upper case one, the last but   *)
(* one upper case letter of an acronym, a letter before a digit or a digit *)
(* before a letter.                                                        *)
word_ends_after_head(s) ==
    /\ Len(s) >= 2
    /\ \/ is_lowercase(s[1]) /\ is_uppercase(s[2])
       \/ Len(s) >= 3 /\ is_uppercase(s[1]) /\ is_uppercase(s[2]) /\ is_lowercase(s[3])
       \/ is_alphabetic(s[1]) /\ is_digit(s[2])
       \/ is_digit(s[1]) /\ is_alphabetic(s[2])

RECURSIVE split_words(_, _, _)
(* convert_case: the words of s, with the word begun and the words found   *)
(* so far; empty words are dropped.                                        *)
split_words(s, word, words) ==
    IF s = <<>>
    THEN SelectSeq(Append(words, word), LAMBDA w : w # <<>>)
    ELSE IF Head(s) \in WordDelimiters
    THEN split_words(Tail(s), <<>>, Append(words, word))
    ELSE IF word_ends_after_head(s)
    THEN split_words(Tail(s), <<>>, Append(words, Append(word, Head(s))))
    ELSE split_words(Tail(s), Append(word, Head(s)), words)

RECURSIVE join_words(_)
(* The words in lower case with "_" between them. *)
join_words(words) ==
    IF words = <<>>
    THEN <<>>
    ELSE IF Len(words) = 1
    THEN to_lowercase(words[1])
    ELSE to_lowercase(words[1]) \o <<"_">> \o join_words(Tail(words))

(* to_case(Case::Snake) *)
to_case_snake(s) == join_words(split_words(s, <<>>, <<>>))

(* EntityId::new: the characters in snake case. *)
EntityId_new(id) == to_case_snake(id)

(* EntityType::new: the name in snake case. *)
EntityType_new(name) == Text(to_case_snake(name))

(* EntityType::from(&str): the name as it is written. *)
EntityType_from(name) == Text(name)

(* Faulty variant: the type is taken as it is written. *)
compose_entity_id_keeps_case(entity_type, entity_id) ==
    EntityId_new(entity_type \o <<".">> \o entity_id)

compose_entity_id(entity_type, entity_id) ==
    EntityId_new(to_lowercase(entity_type) \o <<".">> \o entity_id)

(* str::split_once('.'): the position of the first '.', 0 if there is none. *)
first_dot(s) ==
    IF \E i \in DOMAIN s : s[i] = "."
    THEN CHOOSE i \in DOMAIN s : s[i] = "." /\ \A j \in 1..(i - 1) : s[j] # "."
    ELSE 0

decompose_entity_id(composite_id) ==
    IF first_dot(composite_id) = 0
    THEN <<<<"u", "n", "k", "n", "o", "w", "n">>, composite_id>>
    ELSE <<SubSeq(composite_id, 1, first_dot(composite_id) - 1),
           SubSeq(composite_id, first_dot(composite_id) + 1, Len(composite_id))>>

(* The names written in the sources that are used below, spelled out. *)
person == <<"p", "e", "r", "s", "o", "n">>

organization == <<"o", "r", "g", "a", "n", "i", "z", "a", "t", "i", "o", "n">>

invoice == <<"i", "n", "v", "o", "i", "c", "e">>

Invoice == <<"I", "n", "v", "o", "i", "c", "e">>

PERSON == <<"P", "E", "R", "S", "O", "N">>

Person == <<"P", "e", "r", "s", "o", "n">>

receipt == <<"r", "e", "c", "e", "i", "p", "t">>

ghost == <<"g", "h", "o", "s", "t">>

john == <<"j", "o", "h", "n">>

anon == <<"a", "n", "o", "n">>

i1 == <<"i", "1">>

i2 == <<"i", "2">>

g1 == <<"g", "1">>

-----------------------------------------------------------------------------
(* Parsed sources and their conversion (firm_lang parser/ and convert/)    *)

(* An Option or a Result is written as a sequence of at most one element:  *)
(* <<>> is None or Err.                                                    *)
ParsedSchemaField(name, field_type, required) ==
    [name |-> name, field_type |-> field_type, required |-> required]

ParsedSchema(name, fields) == [name |-> name, fields |-> fields]

ParsedValue(kind, text, entity_type, entity_id, field_id, items) ==
    [kind |-> kind, text |-> text, entity_type |-> entity_type,
     entity_id |-> entity_id, field_id |-> field_id, items |-> items]

ParsedString(s) == ParsedValue("String", s, <<>>, <<>>, "", <<>>)

ParsedEntityReference(entity_type, entity_id) ==
    ParsedValue("EntityReference", "", entity_type, entity_id, "", <<>>)

ParsedFieldReference(entity_type, entity_id, field_id) ==
    ParsedValue("FieldReference", "", entity_type, entity_id, field_id, <<>>)

ParsedList(items) == ParsedValue("List", "", <<>>, <<>>, "", items)

ParsedField(id, value) == [id |-> id, value |-> value]

ParsedEntity(entity_type, id, fields) ==
    [entity_type |-> entity_type, id |-> id, fields |-> fields]

(* ParsedSource: the schemas and the entities a file declares, in order. *)
ParsedSource(schemas, entities) == [schemas |-> schemas, entities |-> entities]

ConversionOk(v) == [ok |-> TRUE, value |-> <<v>>, error |-> <<>>]

ConversionError(kind, text) == [ok |-> FALSE, value |-> <<>>, error |-> <<kind, text>>]

convert_field_type(type_str) ==
    CASE type_str = "boolean" -> ConversionOk("Boolean")
      [] type_str = "string" -> ConversionOk("String")
      [] type_str = "integer" -> ConversionOk("Integer")
      [] type_str = "float" -> ConversionOk("Float")
      [] type_str = "currency" -> ConversionOk("Currency")
      [] type_str = "reference" -> ConversionOk("Reference")
      [] type_str = "list" -> ConversionOk("List")
      [] type_str = "datetime" -> ConversionOk("DateTime")
      [] OTHER -> ConversionError("UnknownFieldType", type_str)

RECURSIVE convert_schema_fields(_, _)
(* for field in parsed.fields(): the first field that fails ends the       *)
(* conversion; a later field replaces an earlier one of the same name.     *)
convert_schema_fields(fields, parsed_fields) ==
    IF parsed_fields = <<>>
    THEN ConversionOk(fields)
    ELSE LET field == Head(parsed_fields)
         IN  IF field.name = <<>>
             THEN ConversionError("MissingFieldName", "")
             ELSE IF field.field_type = <<>>
             THEN ConversionError("MissingFieldType", "")
             ELSE IF ~convert_field_type(field.field_type[1]).ok
             THEN convert_field_type(field.field_type[1])
             ELSE convert_schema_fields(
                      insert(fields, field.name[1],
                             FieldSchema(convert_field_type(field.field_type[1]).value[1],
                                         IF field.required THEN "Required" ELSE "Optional")),
                      Tail(parsed_fields))

(* impl TryFrom<&ParsedSchema> for EntitySchema *)
EntitySchema_try_from(parsed) ==
    IF parsed.name = <<>>
    THEN ConversionError("MissingSchemaName", "")
    ELSE LET fields == convert_schema_fields(EmptyMap, parsed.fields)
         IN  IF fields.ok
             THEN ConversionOk(EntitySchema(EntityType_new(parsed.name[1]), fields.value[1]))
             ELSE fields

(* The composite id of an entity: the type in lower case, a dot, the id. *)
make_composite_entity_id(entity_type, entity_id) ==
    to_lowercase(entity_type) \o <<".">> \o entity_id

RECURSIVE FieldValue_try_from(_)
(* impl TryFrom<ParsedValue> for FieldValue: no arm of the match fails. *)
FieldValue_try_from(parsed) ==
    CASE parsed.kind = "String" -> StringValue(parsed.text)
      [] parsed.kind = "EntityReference" ->
            EntityRef(make_composite_entity_id(parsed.entity_type, parsed.entity_id))
      [] parsed.kind = "FieldReference" ->
            FieldRef(make_composite_entity_id(parsed.entity_type, parsed.entity_id),
                     parsed.field_id)
      [] parsed.kind = "List" ->
            ListValue([i \in DOMAIN parsed.items |-> FieldValue_try_from(parsed.items[i])])

RECURSIVE convert_entity_fields(_, _)
(* for field in parsed.fields() *)
convert_entity_fields(fields, parsed_fields) ==
    IF parsed_fields = <<>>
    THEN ConversionOk(fields)
    ELSE LET field == Head(parsed_fields)
         IN  IF field.id = <<>>
             THEN ConversionError("MissingFieldId", "")
             ELSE IF field.value = <<>>
             THEN ConversionError("InvalidFieldValue", "")
             ELSE convert_entity_fields(
                      insert(fields, field.id[1], FieldValue_try_from(field.value[1])),
                      Tail(parsed_fields))

(* Faulty variant: the id of the entity is its local id. *)
Entity_try_from_local_id(parsed) ==
    IF parsed.entity_type = <<>>
    THEN ConversionError("MissingEntityType", "")
    ELSE IF parsed.id = <<>>
    THEN ConversionError("MissingEntityId", "")
    ELSE LET fields == convert_entity_fields(EmptyMap, parsed.fields)
         IN  IF fields.ok
             THEN ConversionOk(Entity(parsed.id[1], EntityType_from(parsed.entity_type[1]),
                                      fields.value[1]))
             ELSE fields

(* impl TryFrom<&ParsedEntity> for Entity: the entity type is taken as it  *)
(* is written.                                                             *)
Entity_try_from(parsed) ==
    IF parsed.entity_type = <<>>
    THEN ConversionError("MissingEntityType", "")
    ELSE IF parsed.id = <<>>
    THEN ConversionError("MissingEntityId", "")
    ELSE LET fields == convert_entity_fields(EmptyMap, parsed.fields)
         IN  IF fields.ok
             THEN ConversionOk(Entity(make_composite_entity_id(parsed.entity_type[1],
                                                               parsed.id[1]),
                                      EntityType_from(parsed.entity_type[1]),
                                      fields.value[1]))
             ELSE fields

-----------------------------------------------------------------------------
(* Workspace build (firm_lang workspace/build.rs)                          *)

WorkspaceError(kind, path, message) ==
    [kind |-> kind, path |-> path, message |-> message]

(* Result<WorkspaceBuild, WorkspaceError>; the schemas of a WorkspaceBuild *)
(* come out of a HashMap in no particular order and are kept as a set.     *)
WorkspaceBuild(entities, schemas) ==
    [kind |-> "Ok", build |-> <<[entities |-> entities, schemas |-> schemas]>>,
     error |-> <<>>]

BuildError(error) == [kind |-> "Err", build |-> <<>>, error |-> <<error>>]

(* What a pass hands on: the schemas and the entities collected so far, or *)
(* the error that ended the build.                                         *)
Pass(schemas, entities) ==
    [ok |-> TRUE, schemas |-> schemas, entities |-> entities, error |-> <<>>]

PassError(error) ==
    [ok |-> FALSE, schemas |-> EmptyMap, entities |-> <<>>, error |-> <<error>>]

(* The built-in schemas collected into a HashMap by entity type. *)
builtin_schemas ==
    [entity_type \in {all_builtin[i].entity_type : i \in DOMAIN all_builtin} |->
        all_builtin[CHOOSE i \in DOMAIN all_builtin :
                        /\ all_builtin[i].entity_type = entity_type
                        /\ \A j \in DOMAIN all_builtin :
                              all_builtin[j].entity_type = entity_type => j <= i]]

(* Faulty variant: a schema of a type that is registered replaces it. *)
register_schema_replaces(schemas, path, parsed_schema) ==
    LET schema == EntitySchema_try_from(parsed_schema)
    IN  IF ~schema.ok
        THEN PassError(WorkspaceError("ParseError", path, schema.error))
        ELSE Pass(insert(schemas, schema.value[1].entity_type, schema.value[1]), <<>>)

(* The body of the loop over the parsed schemas of a file. *)
register_schema(schemas, path, parsed_schema) ==
    LET schema == EntitySchema_try_from(parsed_schema)
    IN  IF ~schema.ok
        THEN PassError(WorkspaceError("ParseError", path, schema.error))
        ELSE IF contains_key(schemas, schema.value[1].entity_type)
        THEN PassError(WorkspaceError("ValidationError", path, <<"Stuff">>))
        ELSE Pass(insert(schemas, schema.value[1].entity_type, schema.value[1]), <<>>)

RECURSIVE register_schemas(_, _, _)
(* for parsed_schema in &parsed_schemas *)
register_schemas(schemas, path, parsed_schemas) ==
    IF parsed_schemas = <<>>
    THEN Pass(schemas, <<>>)
    ELSE LET first == register_schema(schemas, path, Head(parsed_schemas))
         IN  IF first.ok
             THEN register_schemas(first.schemas, path, Tail(parsed_schemas))
             ELSE first

RECURSIVE first_pass(_, _, _)
(* First pass: for (path, file) in &self.files, visited in `order`. *)
first_pass(schemas, files, order) ==
    IF order = <<>>
    THEN Pass(schemas, <<>>)
    ELSE LET file == register_schemas(schemas, Head(order), files[Head(order)].schemas)
         IN  IF file.ok
             THEN first_pass(file.schemas, files, Tail(order))
             ELSE file

RECURSIVE AnyOrder(_)
(* One order in which the keys of a HashMap are iterated. *)
AnyOrder(keys) ==
    IF keys = {}
    THEN <<>>
    ELSE LET k == CHOOSE k \in keys : TRUE
         IN  <<k>> \o AnyOrder(keys \ {k})

(* Faulty variant: an entity without a schema is taken as it is. *)
build_entity_without_schema(schemas, entities, path, parsed_entity) ==
    LET entity == Entity_try_from(parsed_entity)
    IN  IF ~entity.ok
        THEN PassError(WorkspaceError("ParseError", path, entity.error))
        ELSE IF ~contains_key(schemas, entity.value[1].entity_type)
        THEN Pass(schemas, Append(entities, entity.value[1]))
        ELSE LET result == validate(schemas[entity.value[1].entity_type], entity.value[1],
                                    AnyOrder(DOMAIN schemas[entity.value[1].entity_type].fields))
             IN  IF result.kind = "Err"
                 THEN PassError(WorkspaceError(
                          "ValidationError", path,
                          <<"failed validation", entity.value[1].id, {result.errors[i] : i \in DOMAIN result.errors}>>))
                 ELSE Pass(schemas, Append(entities, entity.value[1]))

(* The body of the loop over the parsed entities of a file; the message of *)
(* a failed validation holds the violations without their order.           *)
build_entity(schemas, entities, path, parsed_entity) ==
    LET entity == Entity_try_from(parsed_entity)
    IN  IF ~entity.ok
        THEN PassError(WorkspaceError("ParseError", path, entity.error))
        ELSE IF ~contains_key(schemas, entity.value[1].entity_type)
        THEN PassError(WorkspaceError(
                 "ValidationError", path,
                 <<"No schema found for entity type", entity.value[1].entity_type>>))
        ELSE LET result == validate(schemas[entity.value[1].entity_type], entity.value[1],
                                    AnyOrder(DOMAIN schemas[entity.value[1].entity_type].fields))
             IN  IF result.kind = "Err"
                 THEN PassError(WorkspaceError(
                          "ValidationError", path,
                          <<"failed validation", entity.value[1].id, {result.errors[i] : i \in DOMAIN result.errors}>>))
                 ELSE Pass(schemas, Append(entities, entity.value[1]))

RECURSIVE build_entities(_, _, _, _)
(* for parsed_entity in &parsed_entities *)
build_entities(schemas, entities, path, parsed_entities) ==
    IF parsed_entities = <<>>
    THEN Pass(schemas, entities)
    ELSE LET first == build_entity(schemas, entities, path, Head(parsed_entities))
         IN  IF first.ok
             THEN build_entities(schemas, first.entities, path, Tail(parsed_entities))
             ELSE first

RECURSIVE second_pass(_, _, _, _)
(* Second pass: for (path, file) in &self.files, in the same order. *)
second_pass(schemas, entities, files, order) ==
    IF order = <<>>
    THEN Pass(schemas, entities)
    ELSE LET file == build_entities(schemas, entities, Head(order),
                                    files[Head(order)].entities)
         IN  IF file.ok
             THEN second_pass(schemas, file.entities, files, Tail(order))
             ELSE file

RECURSIVE single_pass(_, _, _, _)
(* Faulty variant of the two passes: the entities of a file are built      *)
(* right after its schemas are registered.                                 *)
single_pass(schemas, entities, files, order) ==
    IF order = <<>>
    THEN Pass(schemas, entities)
    ELSE LET registered == register_schemas(schemas, Head(order), files[Head(order)].schemas)
         IN  IF ~registered.ok
             THEN registered
             ELSE LET file == build_entities(registered.schemas, entities, Head(order),
                                             files[Head(order)].entities)
                  IN  IF file.ok
                      THEN single_pass(registered.schemas, file.entities, files, Tail(order))
                      ELSE file

(* Faulty variant: one pass over the files. *)
build_file_by_file(files, order) ==
    LET built == single_pass(builtin_schemas, <<>>, files, order)
    IN  IF ~built.ok
        THEN BuildError(built.error[1])
        ELSE WorkspaceBuild(built.entities,
                            {built.schemas[t] : t \in DOMAIN built.schemas})

(* Workspace::build_with_progress, the files visited in `order`. *)
build_with_progress(files, order) ==
    LET registered == first_pass(builtin_schemas, files, order)
    IN  IF ~registered.ok
        THEN BuildError(registered.error[1])
        ELSE LET built == second_pass(registered.schemas, <<>>, files, order)
             IN  IF ~built.ok
                 THEN BuildError(built.error[1])
                 ELSE WorkspaceBuild(built.entities,
                                     {built.schemas[t] : t \in DOMAIN built.schemas})

-----------------------------------------------------------------------------
(* Extraction of a list value (firm_lang parser/parsed_value.rs)           *)

ParsedInteger(n) == ParsedValue("Integer", n, <<>>, <<>>, "", <<>>)

(* ParsedValue::get_type_name: the name of the variant. *)
get_type_name(v) ==
    CASE v.kind = "Boolean" -> "Boolean"
      [] v.kind = "String" -> "String"
      [] v.kind = "Integer" -> "Integer"
      [] v.kind = "Float" -> "Float"
      [] v.kind = "Currency" -> "Currency"
      [] v.kind = "EntityReference" -> "EntityReference"
      [] v.kind = "FieldReference" -> "FieldReference"
      [] v.kind = "List" -> "List"
      [] v.kind = "DateTime" -> "DateTime"
      [] v.kind = "Path" -> "Path"

(* Result<ParsedValue, ValueParseError> *)
ParseOk(v) == [ok |-> TRUE, value |-> <<v>>, error |-> <<>>]

ParseErr(e) == [ok |-> FALSE, value |-> <<>>, error |-> <<e>>]

HeterogeneousList(expected, found_type, index) ==
    [kind |-> "HeterogeneousList", expected_type |-> expected,
     found_type |-> found_type, index |-> index]

InvalidDate(raw) ==
    [kind |-> "InvalidDate", expected_type |-> "", found_type |-> "", index |-> 0,
     raw |-> raw]

(* The kind of a syntax node that holds a value; the other children of a   *)
(* list node are its brackets and commas.                                  *)
VALUE_KIND == "value"

(* A value node that is no list, with what from_node makes of its text. *)
LeafNode(parsed) == [kind |-> VALUE_KIND, list |-> FALSE, parsed |-> parsed, children |-> <<>>]

(* A value node that holds a list, with the children of its list node. *)
ListNode(children) ==
    [kind |-> VALUE_KIND, list |-> TRUE, parsed |-> ParseOk(ParsedList(<<>>)),
     children |-> children]

TokenNode(kind) ==
    [kind |-> kind, list |-> FALSE, parsed |-> ParseOk(ParsedList(<<>>)), children |-> <<>>]

(* Faulty variant: the index counts from one. *)
item_type_error_counts_from_one(expected, item_type, index) ==
    IF expected # <<>> /\ item_type # expected[1]
    THEN <<HeterogeneousList(expected[1], item_type, index + 1)>>
    ELSE <<>>

(* The homogeneity check of one item: the error it raises, if any. *)
item_type_error(expected, item_type, index) ==
    IF expected # <<>> /\ item_type # expected[1]
    THEN <<HeterogeneousList(expected[1], item_type, index)>>
    ELSE <<>>

RECURSIVE parse_list(_)
RECURSIVE parse_list_children(_, _, _, _)

(* ParsedValue::from_node on a value node: a list is extracted element by  *)
(* element, any other value from its text.                                 *)
from_node(node) == IF node.list THEN parse_list(node.children) ELSE node.parsed

(* for child in list_node.children(..), with the items, expected_type and  *)
(* index so far.                                                          *)
parse_list_children(children, items, expected, index) ==
    IF children = <<>>
    THEN ParseOk(ParsedList(items))
    ELSE IF Head(children).kind # VALUE_KIND
    THEN parse_list_children(Tail(children), items, expected, index)
    ELSE LET item == from_node(Head(children))
         IN  IF ~item.ok
             THEN item
             ELSE IF item_type_error(expected, get_type_name(item.value[1]), index) # <<>>
             THEN ParseErr(item_type_error(expected,
                                           get_type_name(item.value[1]), index)[1])
             ELSE parse_list_children(
                      Tail(children), Append(items, item.value[1]),
                      IF expected = <<>>
                      THEN <<get_type_name(item.value[1])>>
                      ELSE expected,
                      index + 1)

(* ParsedValue::parse_list on the children of the list node. *)
parse_list(children) == parse_list_children(children, <<>>, <<>>, 0)

-----------------------------------------------------------------------------
(* compute_unique_entity_id (firm_cli commands/add.rs)                     *)

(* The bound of the loop on id_counter. *)
IdCounterLimit == 1000

RECURSIVE to_decimal(_)
(* format!("{}", n) of an integer that is not negative. *)
to_decimal(n) ==
    IF n < 10
    THEN <<DecimalDigits[n + 1]>>
    ELSE to_decimal(n \div 10) \o <<DecimalDigits[(n % 10) + 1]>>

(* chosen_id.chars().filter(|&c| c == ' ' || c.is_alphabetic())            *)
(*     .collect::<String>().to_case(Case::Snake)                           *)
conform_chosen_id(chosen_id) ==
    to_case_snake(SelectSeq(chosen_id, LAMBDA c : c = " " \/ is_alphabetic(c)))

(* format!("{}_{}", chosen_id, id_counter) *)
numbered_entity_id(chosen_id, id_counter) ==
    chosen_id \o <<"_">> \o to_decimal(id_counter)

(* The local variables of compute_unique_entity_id. *)
UniqueIdFrame(chosen_id, entity_id, id_counter) ==
    [chosen_id |-> chosen_id, entity_id |-> entity_id, id_counter |-> id_counter]

(* Faulty variant: the id looked up in the graph is the chosen one. *)
unique_id_loop_condition_of_chosen_id(g, chosen_type_str, frame) ==
    /\ get_entity(g, compose_entity_id(chosen_type_str, frame.chosen_id)) # <<>>
    /\ frame.id_counter < IdCounterLimit

(* The condition of the while loop. *)
unique_id_loop_condition(g, chosen_type_str, frame) ==
    /\ get_entity(g, compose_entity_id(chosen_type_str, frame.entity_id)) # <<>>
    /\ frame.id_counter < IdCounterLimit

-----------------------------------------------------------------------------
(* History kept beside the program state *)

(* The graph the variables hold. *)
Graph == EntityGraph(nodes, edges, entity_map, entity_type_map)

Store(g) ==
    /\ nodes' = g.nodes
    /\ edges' = g.edges
    /\ entity_map' = g.entity_map
    /\ entity_type_map' = g.entity_type_map

(* "unbuilt": no build() since new() or clear(); "built": build() ran and  *)
(* no entity was added since; "stale": an entity was added after the last  *)
(* build().                                                                *)
Built == stage = "built"

StageAfterAdd(g) == IF Built /\ g.nodes # nodes THEN "stale" ELSE stage

(* No function is applied on its own. *)
NoInput == [name |-> "none"]

-----------------------------------------------------------------------------
(* EntityGraph::new *)

Init ==
    /\ nodes = <<>>
    /\ edges = <<>>
    /\ entity_map = EmptyMap
    /\ entity_type_map = EmptyMap
    /\ op = Call("new", <<>>, 0, 0, FALSE)
    /\ ret = Ok
    /\ stage = "unbuilt"
    /\ dropped = {}
    /\ input = NoInput
    /\ workspace = EmptyMap

-----------------------------------------------------------------------------
(* The operations *)

AddEntity(entity) ==
    LET r == add_entity(Graph, entity)
    IN  /\ Store(r.graph)
        /\ ret' = r.result
        /\ op' = Call("add_entity", <<entity>>, 1, Len(r.graph.nodes) - Len(nodes), FALSE)
        /\ stage' = StageAfterAdd(r.graph)
        /\ UNCHANGED <<dropped, input, workspace>>

AddEntities(entities) ==
    LET r == add_entities(Graph, entities)
    IN  /\ Store(r.graph)
        /\ ret' = r.result
        /\ op' = Call("add_entities", <<>>, Len(entities),
                      Len(r.graph.nodes) - Len(nodes), FALSE)
        /\ stage' = StageAfterAdd(r.graph)
        /\ UNCHANGED <<dropped, input, workspace>>

Build(orders) ==
    /\ Store(build(Graph, orders))
    /\ ret' = Ok
    /\ op' = Call("build", <<>>, 0, 0, Built)
    /\ stage' = "built"
    /\ dropped' = dropped \cup Dangling(Graph)
    /\ UNCHANGED <<input, workspace>>

Clear ==
    /\ Store(clear(Graph))
    /\ ret' = Ok
    /\ op' = Call("clear", <<>>, 0, 0, FALSE)
    /\ stage' = "unbuilt"
    /\ dropped' = {}
    /\ UNCHANGED <<input, workspace>>

Next ==
    \/ \E entity \in EntityPool : AddEntity(entity)
    \/ \E entities \in Batches : AddEntities(entities)
    \/ \E orders \in [DOMAIN nodes -> FieldOrders] : Build(orders)
    \/ Clear

Spec == Init /\ [][Next]_vars

-----------------------------------------------------------------------------
(* Graphs holding long chains of field references, as the resolver tests   *)
(* of graph/query.rs build them: field r(i) refers to field r(i+1), inside *)
(* one entity or back and forth between two, and the last field holds the  *)
(* tail of the chain.                                                      *)

ChainFieldIds ==
    <<"r01", "r02", "r03", "r04", "r05", "r06", "r07", "r08",
      "r09", "r10", "r11", "r12", "r13", "r14", "r15", "r16">>

ChainIndex(field_id) == CHOOSE i \in DOMAIN ChainFieldIds : ChainFieldIds[i] = field_id

ChainFields(n) == {ChainFieldIds[i] : i \in 1..n}

(* An id no entity of the chain graphs has. *)
ChainMissingId == 3

(* What the last field of a chain holds: a literal, an entity reference, a *)
(* field reference back to the first field, or one to a missing entity.    *)
ChainTails ==
    {StringValue("x"), EntityRef(1), FieldRef(1, ChainFieldIds[1]),
     FieldRef(ChainMissingId, ChainFieldIds[1])}

(* One entity whose fields r1..rn refer each to the next one. *)
ChainEntity(n, tail) ==
    Entity(1, "person",
           [field_id \in ChainFields(n) |->
               IF ChainIndex(field_id) < n
               THEN FieldRef(1, ChainFieldIds[ChainIndex(field_id) + 1])
               ELSE tail])

(* Two entities: field ri of the first refers to field ri of the second,   *)
(* which refers to field r(i+1) of the first.                              *)
CrossSource(n) ==
    Entity(1, "person", [field_id \in ChainFields(n) |-> FieldRef(2, field_id)])

CrossTarget(n, tail) ==
    Entity(2, "organization",
           [field_id \in ChainFields(n) |->
               IF ChainIndex(field_id) < n
               THEN FieldRef(1, ChainFieldIds[ChainIndex(field_id) + 1])
               ELSE tail])

ChainPool ==
    {ChainEntity(n, tail) : n \in 1..MaxChain, tail \in ChainTails}
    \cup {CrossSource(n) : n \in 1..MaxCross}
    \cup {CrossTarget(n, tail) : n \in 1..MaxCross, tail \in ChainTails}

(* Two orders in which the fields of the chain entities are iterated. *)
ChainFieldOrders ==
    {ChainFieldIds,
     [i \in DOMAIN ChainFieldIds |-> ChainFieldIds[Len(ChainFieldIds) + 1 - i]]}

(* add_entity with an entity whose id is not in the graph yet. *)
ChainAdd(entity) ==
    /\ ~contains_key(entity_map, entity.id)
    /\ AddEntity(entity)

ChainNext ==
    \/ \E entity \in ChainPool : ChainAdd(entity)
    \/ \E order \in ChainFieldOrders : Build([n \in DOMAIN nodes |-> order])
    \/ Clear

ChainSpec == Init /\ [][ChainNext]_vars

-----------------------------------------------------------------------------
(* A field reference that is resolved in a graph of chains, call by call. *)

(* The entities of a graph: one chain entity, or the two of a chain that   *)
(* goes back and forth.                                                    *)
ResolveEntities ==
    {<<ChainEntity(n, tail)>> : n \in 1..MaxChain, tail \in ChainTails}
    \cup {<<CrossSource(n), CrossTarget(n, tail)>> : n \in 1..MaxCross, tail \in ChainTails}

(* The graph with the entities, before build() and after it. *)
ResolveGraph(entities, built) ==
    LET g == add_entities(EntityGraph(<<>>, <<>>, EmptyMap, EmptyMap), entities).graph
    IN  IF built THEN build(g, [n \in DOMAIN g.nodes |-> ChainFieldIds]) ELSE g

(* The values handed to resolve_field_reference. *)
ResolveValues ==
    {FieldRef(1, ChainFieldIds[1]), FieldRef(1, ChainFieldIds[3]),
     FieldRef(2, ChainFieldIds[1]), FieldRef(ChainMissingId, ChainFieldIds[1]),
     StringValue("x"), EntityRef(1)}

ResolveInput(field_value) ==
    [name |-> "resolve_field_reference", field_value |-> field_value]

ResolveInit ==
    /\ \E entities \in ResolveEntities, built \in BOOLEAN :
          /\ nodes = ResolveGraph(entities, built).nodes
          /\ edges = ResolveGraph(entities, built).edges
          /\ entity_map = ResolveGraph(entities, built).entity_map
          /\ entity_type_map = ResolveGraph(entities, built).entity_type_map
          /\ stage = IF built THEN "built" ELSE "unbuilt"
    /\ op = Call("new", <<>>, 0, 0, FALSE)
    /\ ret = Ok
    /\ dropped = {}
    /\ input \in {ResolveInput(v) : v \in ResolveValues}
    /\ workspace = EmptyMap

(* resolve_field_reference is called. *)
StartResolve ==
    /\ op.name = "new"
    /\ ret' = resolve_start(input.field_value)
    /\ op' = Call(IF resolve_start(input.field_value).result = <<>>
                  THEN "search_field_reference"
                  ELSE "return", <<>>, 0, 0, FALSE)
    /\ UNCHANGED <<graph_vars, stage, dropped, input, workspace>>

(* The running call of search_field_reference returns or calls itself. *)
SearchFieldReference ==
    /\ op.name = "search_field_reference"
    /\ ret' = search_step(Graph, ret)
    /\ op' = Call(IF search_step(Graph, ret).result = <<>>
                  THEN "search_field_reference"
                  ELSE "return", <<>>, 0, 0, FALSE)
    /\ UNCHANGED <<graph_vars, stage, dropped, input, workspace>>

ResolveNext == StartResolve \/ SearchFieldReference

(* The calls run on: the resolver waits for nothing. *)
ResolveSpec == ResolveInit /\ [][ResolveNext]_vars /\ WF_vars(ResolveNext)

-----------------------------------------------------------------------------
(* EntitySchema::validate applied to a schema and an entity, as the tests  *)
(* of schema/validation.rs do.                                             *)

FieldSchemas ==
    {FieldSchema(field_type, field_mode) :
        field_type \in {"String", "Reference", "List"},
        field_mode \in {"Required", "Optional"}}

(* Schemas that declare none, one or both of the fields in FieldIds. *)
SchemaPool ==
    {EntitySchema(entity_type, fields) :
        entity_type \in {"person", "organization"},
        fields \in UNION {[declared -> FieldSchemas] : declared \in SUBSET FieldIds}}

ValidatedEntities ==
    EntityPool
    \cup {Entity(1, "person", EmptyMap), Entity(1, "person", [f |-> BooleanValue(TRUE)])}

ValidateInput(schema, entity) ==
    [name |-> "validate", schema |-> schema, entity |-> entity]

ValidateInit ==
    /\ nodes = <<>>
    /\ edges = <<>>
    /\ entity_map = EmptyMap
    /\ entity_type_map = EmptyMap
    /\ op = Call("new", <<>>, 0, 0, FALSE)
    /\ ret = Ok
    /\ stage = "unbuilt"
    /\ dropped = {}
    /\ input \in {ValidateInput(schema, entity) :
                     schema \in SchemaPool, entity \in ValidatedEntities}
    /\ workspace = EmptyMap

Validate(order) ==
    /\ op.name # "validate"
    /\ ret' = validate(input.schema, input.entity, order)
    /\ op' = Call("validate", <<>>, 0, 0, FALSE)
    /\ UNCHANGED <<graph_vars, stage, dropped, input, workspace>>

ValidateNext ==
    \E order \in Orders(DOMAIN input.schema.fields) : Validate(order)

ValidateSpec == ValidateInit /\ [][ValidateNext]_vars

-----------------------------------------------------------------------------
(* A workspace of up to two files that is loaded and built. *)

Paths == {"a.firm", "b.firm"}

(* schema person {}: the entity type of a built-in schema. *)
SchemaPerson == ParsedSchema(<<person>>, <<>>)

(* schema invoice { field { name = "total" type = "string" required = true } } *)
SchemaInvoice ==
    ParsedSchema(<<invoice>>, <<ParsedSchemaField(<<"total">>, <<"string">>, TRUE)>>)

(* schema Invoice {}: the entity type is invoice as well. *)
SchemaInvoiceCapital == ParsedSchema(<<Invoice>>, <<>>)

(* A schema whose conversion fails: "money" is no field type. *)
SchemaReceipt ==
    ParsedSchema(<<receipt>>, <<ParsedSchemaField(<<"sum">>, <<"money">>, FALSE)>>)

EntityJohn ==
    ParsedEntity(<<person>>, <<john>>, <<ParsedField(<<"name">>, <<ParsedString("John")>>)>>)

(* A person without the required name. *)
EntityAnon == ParsedEntity(<<person>>, <<anon>>, <<>>)

EntityInvoice ==
    ParsedEntity(<<invoice>>, <<i1>>, <<ParsedField(<<"total">>, <<ParsedString("9")>>)>>)

(* An entity of a type that has no schema. *)
EntityGhost == ParsedEntity(<<ghost>>, <<g1>>, <<>>)

(* An invoice without the total that SchemaInvoice requires. *)
EntityInvoiceBare == ParsedEntity(<<invoice>>, <<i2>>, <<>>)

(* An entity whose conversion fails: the id is missing. *)
EntityNoId == ParsedEntity(<<person>>, <<>>, <<>>)

SourcePool ==
    {ParsedSource(<<>>, <<EntityJohn>>),
     ParsedSource(<<SchemaInvoice>>, <<EntityInvoice>>),
     ParsedSource(<<SchemaInvoice>>, <<>>),
     ParsedSource(<<>>, <<EntityInvoice>>),
     ParsedSource(<<SchemaPerson>>, <<>>),
     ParsedSource(<<SchemaInvoiceCapital>>, <<>>),
     ParsedSource(<<SchemaInvoice, SchemaInvoiceCapital>>, <<>>),
     ParsedSource(<<SchemaReceipt>>, <<>>),
     ParsedSource(<<>>, <<EntityAnon>>),
     ParsedSource(<<>>, <<EntityGhost>>),
     ParsedSource(<<>>, <<EntityJohn, EntityGhost>>),
     ParsedSource(<<>>, <<EntityInvoiceBare>>),
     ParsedSource(<<>>, <<EntityNoId>>)}

(* Workspace::new *)
WorkspaceInit ==
    /\ nodes = <<>>
    /\ edges = <<>>
    /\ entity_map = EmptyMap
    /\ entity_type_map = EmptyMap
    /\ op = Call("new", <<>>, 0, 0, FALSE)
    /\ ret = Ok
    /\ stage = "unbuilt"
    /\ dropped = {}
    /\ input = NoInput
    /\ workspace = EmptyMap

(* load_file: the file is read and parsed and takes the place of the file  *)
(* loaded from the same path, or reading or parsing fails and the          *)
(* workspace stays as it is.                                               *)
LoadFile(path, parsed, outcome) ==
    /\ workspace' = IF outcome = "Ok" THEN insert(workspace, path, parsed) ELSE workspace
    /\ ret' = IF outcome = "Ok"
              THEN Ok
              ELSE BuildError(WorkspaceError(outcome, path, <<>>))
    /\ op' = Call("load_file", <<>>, 0, 0, FALSE)
    /\ UNCHANGED <<graph_vars, stage, dropped, input>>

(* The order in which a build visited the files. *)
BuildInput(order) == [name |-> "workspace_build", order |-> order]

(* Workspace::build *)
BuildWorkspace(order) ==
    /\ ret' = build_with_progress(workspace, order)
    /\ op' = Call("workspace_build", <<>>, 0, 0, FALSE)
    /\ input' = BuildInput(order)
    /\ UNCHANGED <<graph_vars, stage, dropped, workspace>>

WorkspaceNext ==
    \/ \E path \in Paths, parsed \in SourcePool, outcome \in {"Ok", "IoError", "ParseError"} :
          LoadFile(path, parsed, outcome)
    \/ \E order \in Orders(DOMAIN workspace) : BuildWorkspace(order)

WorkspaceSpec == WorkspaceInit /\ [][WorkspaceNext]_vars

-----------------------------------------------------------------------------
(* A parsed schema that is converted on its own. *)

(* The type strings of the schema fields: the nine the language documents, *)
(* and some it does not.                                                   *)
TypeStrings ==
    {"boolean", "string", "integer", "float", "currency", "reference", "list",
     "datetime", "path", "date", "money", "String", ""}

ParsedSchemaFields ==
    {ParsedSchemaField(<<name>>, <<type_str>>, required) :
        name \in {"a", "b"}, type_str \in TypeStrings, required \in BOOLEAN}
    \cup {ParsedSchemaField(<<>>, <<"string">>, TRUE),
          ParsedSchemaField(<<"a">>, <<>>, TRUE)}

ParsedSchemas ==
    {ParsedSchema(name, fields) :
        name \in {<<>>, <<invoice>>}, fields \in SeqsUpTo(ParsedSchemaFields, 2)}

SchemaInput(parsed) == [name |-> "try_from", parsed |-> parsed]

SchemaInit ==
    /\ nodes = <<>>
    /\ edges = <<>>
    /\ entity_map = EmptyMap
    /\ entity_type_map = EmptyMap
    /\ op = Call("new", <<>>, 0, 0, FALSE)
    /\ ret = Ok
    /\ stage = "unbuilt"
    /\ dropped = {}
    /\ input \in {SchemaInput(parsed) : parsed \in ParsedSchemas}
    /\ workspace = EmptyMap

(* EntitySchema::try_from(&parsed) *)
ConvertSchema ==
    /\ op.name # "try_from"
    /\ ret' = EntitySchema_try_from(input.parsed)
    /\ op' = Call("try_from", <<>>, 0, 0, FALSE)
    /\ UNCHANGED <<graph_vars, stage, dropped, input, workspace>>

SchemaNext == ConvertSchema

SchemaSpec == SchemaInit /\ [][SchemaNext]_vars

-----------------------------------------------------------------------------
(* A list node that is extracted on its own. *)

MaxList == 3

(* The elements of the inner lists. *)
LeafNodes ==
    {LeafNode(ParseOk(ParsedString("x"))),
     LeafNode(ParseOk(ParsedInteger("1"))),
     LeafNode(ParseOk(ParsedEntityReference(person, john))),
     LeafNode(ParseOk(ParsedFieldReference(person, john, "name"))),
     LeafNode(ParseErr(InvalidDate("2024-13-45")))}

(* The children of a list node: values, lists of values, and commas. *)
ChildNodes ==
    LeafNodes
    \cup {ListNode(children) :
            children \in {<<>>,
                          <<LeafNode(ParseOk(ParsedString("x")))>>,
                          <<LeafNode(ParseOk(ParsedString("x"))),
                            LeafNode(ParseOk(ParsedInteger("1")))>>}}
    \cup {TokenNode(",")}

ListInput(children) == [name |-> "parse_list", children |-> children]

ListInit ==
    /\ nodes = <<>>
    /\ edges = <<>>
    /\ entity_map = EmptyMap
    /\ entity_type_map = EmptyMap
    /\ op = Call("new", <<>>, 0, 0, FALSE)
    /\ ret = Ok
    /\ stage = "unbuilt"
    /\ dropped = {}
    /\ input \in {ListInput(children) : children \in SeqsUpTo(ChildNodes, MaxList)}
    /\ workspace = EmptyMap

(* ParsedValue::parse_list(node, source) *)
ParseList ==
    /\ op.name # "parse_list"
    /\ ret' = parse_list(input.children)
    /\ op' = Call("parse_list", <<>>, 0, 0, FALSE)
    /\ UNCHANGED <<graph_vars, stage, dropped, input, workspace>>

ListNext == ParseList

ListSpec == ListInit /\ [][ListNext]_vars

-----------------------------------------------------------------------------
(* A composite id that is composed and decomposed on its own. *)

MaxIdLen == 2

(* The characters of the types and the local ids: a lower case letter, an  *)
(* upper case letter, two word delimiters and the separator.               *)
IdChars == {"a", "B", "_", " ", "."}

IdStrings == SeqsUpTo(IdChars, MaxIdLen)

IdInput(entity_type, entity_id) ==
    [name |-> "compose_entity_id", entity_type |-> entity_type, entity_id |-> entity_id]

IdInit ==
    /\ nodes = <<>>
    /\ edges = <<>>
    /\ entity_map = EmptyMap
    /\ entity_type_map = EmptyMap
    /\ op = Call("new", <<>>, 0, 0, FALSE)
    /\ ret = Ok
    /\ stage = "unbuilt"
    /\ dropped = {}
    /\ input \in {IdInput(t, l) : t \in IdStrings, l \in IdStrings}
    /\ workspace = EmptyMap

(* compose_entity_id(entity_type, entity_id) *)
ComposeId ==
    /\ op.name = "new"
    /\ ret' = compose_entity_id(input.entity_type, input.entity_id)
    /\ op' = Call("compose_entity_id", <<>>, 0, 0, FALSE)
    /\ UNCHANGED <<graph_vars, stage, dropped, input, workspace>>

(* decompose_entity_id(id.as_str()) of the id composed before *)
DecomposeId ==
    /\ op.name = "compose_entity_id"
    /\ ret' = decompose_entity_id(ret)
    /\ op' = Call("decompose_entity_id", <<>>, 0, 0, FALSE)
    /\ UNCHANGED <<graph_vars, stage, dropped, input, workspace>>

IdNext == ComposeId \/ DecomposeId

IdSpec == IdInit /\ [][IdNext]_vars

-----------------------------------------------------------------------------
(* The entities of one source that are converted and put into a graph. *)

MaxEntities == 2

(* The entities a source declares: types that differ in more than the case *)
(* of their letters or in that only, two local ids, and entities without a *)
(* type or an id.                                                          *)
DeclaredEntities ==
    {ParsedEntity(<<t>>, <<l>>, <<>>) :
        t \in {person, Person, PERSON, organization}, l \in {john, anon}}
    \cup {ParsedEntity(<<person>>, <<>>, <<>>), ParsedEntity(<<>>, <<john>>, <<>>)}

MaterializeInput(entities) == [name |-> "parse_source", entities |-> entities]

MaterializeInit ==
    /\ nodes = <<>>
    /\ edges = <<>>
    /\ entity_map = EmptyMap
    /\ entity_type_map = EmptyMap
    /\ op = Call("new", <<>>, 0, 0, FALSE)
    /\ ret = Ok
    /\ stage = "unbuilt"
    /\ dropped = {}
    /\ input \in {MaterializeInput(entities) :
                    entities \in SeqsUpTo(DeclaredEntities, MaxEntities)}
    /\ workspace = EmptyMap

(* Entity::try_from(&entities[i]) of every entity of the source *)
ConvertEntities ==
    /\ op.name = "new"
    /\ ret' = [i \in DOMAIN input.entities |-> Entity_try_from(input.entities[i])]
    /\ op' = Call("try_from", <<>>, Len(input.entities), 0, FALSE)
    /\ UNCHANGED <<graph_vars, stage, dropped, input, workspace>>

(* graph.add_entities(entities) with the entities converted, when every    *)
(* conversion succeeded                                                    *)
AddConverted ==
    /\ op.name = "try_from"
    /\ \A i \in DOMAIN ret : ret[i].ok
    /\ LET entities == [i \in DOMAIN ret |-> ret[i].value[1]]
           out == add_entities(EntityGraph(nodes, edges, entity_map, entity_type_map),
                               entities)
       IN  /\ nodes' = out.graph.nodes
           /\ edges' = out.graph.edges
           /\ entity_map' = out.graph.entity_map
           /\ entity_type_map' = out.graph.entity_type_map
           /\ ret' = out.result
           /\ op' = Call("add_entities", <<>>, Len(entities),
                         Len(out.graph.nodes) - Len(nodes), FALSE)
    /\ UNCHANGED <<stage, dropped, input, workspace>>

(* graph.list_by_type(&EntityType::from(decompose_entity_id(id).0)) for the *)
(* id of an entity of the graph                                            *)
ListByTypeOfId ==
    /\ op.name \in {"add_entities", "list_by_type"}
    /\ \E n \in DOMAIN nodes :
          /\ ret' = list_by_type(EntityGraph(nodes, edges, entity_map, entity_type_map),
                                 EntityType_from(decompose_entity_id(nodes[n].id)[1]))
          /\ op' = Call("list_by_type", <<nodes[n]>>, 0, 0, FALSE)
    /\ UNCHANGED <<graph_vars, stage, dropped, input, workspace>>

MaterializeNext == ConvertEntities \/ AddConverted \/ ListByTypeOfId

MaterializeSpec == MaterializeInit /\ [][MaterializeNext]_vars

-----------------------------------------------------------------------------
(* An id that is computed for a new entity of a graph. *)

MaxUsed == 3

(* The entity that the source "<type> <local id> { }" gives. *)
SourceEntity(entity_type, local_id) ==
    Entity_try_from(ParsedEntity(<<entity_type>>, <<local_id>>, <<>>)).value[1]

(* The local ids john, john_1, .., john_(n-1). *)
JohnIds(n) == [i \in 1..n |-> IF i = 1 THEN john ELSE john \o <<"_">> \o to_decimal(i - 1)]

(* The graphs: persons with the first n of the local ids john, john_1, ..  *)
(* for small n and for as many as the loop can try, a graph where john_1   *)
(* is free and john_2 is not, and an organization with the id john.        *)
UsedLocalIds ==
    {JohnIds(n) : n \in 0..MaxUsed}
    \cup {JohnIds(IdCounterLimit), <<john, john \o <<"_", "2">>>>}

(* The graph that add_entities makes of entities with different ids: the  *)
(* entities are the nodes in their order, and the indices hold a node by   *)
(* its id and the nodes of a type in their order.                          *)
GraphOfEntities(entities) ==
    EntityGraph(entities,
                <<>>,
                [id \in {entities[i].id : i \in DOMAIN entities} |->
                    CHOOSE i \in DOMAIN entities : entities[i].id = id],
                [t \in {entities[i].entity_type : i \in DOMAIN entities} |->
                    SelectSeq([i \in DOMAIN entities |-> i],
                              LAMBDA i : entities[i].entity_type = t)])

UniqueIdGraphs ==
    {GraphOfEntities([i \in DOMAIN ids |-> SourceEntity(person, ids[i])]) :
        ids \in UsedLocalIds}
    \cup {GraphOfEntities(<<SourceEntity(organization, john)>>)}

(* What is typed at the prompt "ID:". *)
ChosenIds ==
    {john, <<"J", "o", "h", "n">>, <<"j", "o", "h", "n", "!", "7">>,
     <<"j", "o", " ", "h", "n">>, <<>>}

UniqueIdInput(chosen_type_str, chosen_id) ==
    [name |-> "compute_unique_entity_id",
     chosen_type_str |-> chosen_type_str, chosen_id |-> chosen_id]

UniqueIdInit ==
    /\ \E g \in UniqueIdGraphs :
          /\ nodes = g.nodes
          /\ edges = g.edges
          /\ entity_map = g.entity_map
          /\ entity_type_map = g.entity_type_map
    /\ op = Call("new", <<>>, 0, 0, FALSE)
    /\ ret = Ok
    /\ stage = "unbuilt"
    /\ dropped = {}
    /\ input \in {UniqueIdInput(t, c) : t \in {person, organization}, c \in ChosenIds}
    /\ workspace = EmptyMap

(* compute_unique_entity_id up to the loop: the chosen id is made to       *)
(* conform, entity_id is a copy of it and id_counter is 1.                 *)
EnterUniqueId ==
    /\ op.name = "new"
    /\ LET chosen_id == conform_chosen_id(input.chosen_id)
       IN  ret' = UniqueIdFrame(chosen_id, chosen_id, 1)
    /\ op' = Call("while", <<>>, 0, 0, FALSE)
    /\ UNCHANGED <<graph_vars, stage, dropped, input, workspace>>

(* One turn of the loop. *)
TryNextId ==
    /\ op.name = "while"
    /\ unique_id_loop_condition(EntityGraph(nodes, edges, entity_map, entity_type_map),
                                input.chosen_type_str, ret)
    /\ ret' = UniqueIdFrame(ret.chosen_id,
                            numbered_entity_id(ret.chosen_id, ret.id_counter),
                            ret.id_counter + 1)
    /\ UNCHANGED <<graph_vars, op, stage, dropped, input, workspace>>

(* The loop is left and entity_id is returned. *)
ReturnUniqueId ==
    /\ op.name = "while"
    /\ ~unique_id_loop_condition(EntityGraph(nodes, edges, entity_map, entity_type_map),
                                 input.chosen_type_str, ret)
    /\ op' = Call("return", <<>>, 0, 0, FALSE)
    /\ UNCHANGED <<graph_vars, ret, stage, dropped, input, workspace>>

UniqueIdNext == EnterUniqueId \/ TryNextId \/ ReturnUniqueId

UniqueIdSpec == UniqueIdInit /\ [][UniqueIdNext]_vars

-----------------------------------------------------------------------------
(* Properties *)

IdsInGraph == {nodes[n].id : n \in DOMAIN nodes}

(* C1: add_entity with an id that is already in the graph returns          *)
(* EntityAlreadyExists(id) and changes nothing: the node count, the edge   *)
(* count, the id index and the type index (its keys included) are what     *)
(* they were before the call, whatever the entity type of the rejected     *)
(* entity.                                                                 *)
C1_DuplicateAddChangesNothing ==
    [][(op'.name = "add_entity" /\ op'.entity[1].id \in IdsInGraph)
        => /\ ret' = EntityAlreadyExists(op'.entity[1].id)
           /\ Len(nodes') = Len(nodes)
           /\ Len(edges') = Len(edges)
           /\ entity_map' = entity_map
           /\ DOMAIN entity_type_map' = DOMAIN entity_type_map
           /\ entity_type_map' = entity_type_map
           /\ nodes' = nodes
           /\ edges' = edges]_vars

(* A rejected add of an entity whose type is not the stored entity's and   *)
(* has no entity in the graph, on a graph that has edges.                  *)
C1_Witness ==
    /\ op.name = "add_entity"
    /\ ret.kind = "EntityAlreadyExists"
    /\ ret.id \in DOMAIN entity_map
    /\ op.entity[1].entity_type # nodes[entity_map[ret.id]].entity_type
    /\ ~contains_key(entity_type_map, op.entity[1].entity_type)
    /\ Len(edges) > 0

(* The position in `entities` of the first entity whose id is in graph g   *)
(* or is the id of an earlier entity of the list; 0 when there is none.    *)
FirstDuplicate(g, entities) ==
    LET dups == {i \in DOMAIN entities :
                    \/ entities[i].id \in {g.nodes[n].id : n \in DOMAIN g.nodes}
                    \/ \E j \in 1..(i - 1) : entities[j].id = entities[i].id}
    IN  IF dups = {} THEN 0 ELSE CHOOSE i \in dups : \A j \in dups : i <= j

(* C2: add_entities adds the entities in list order and stops at the first *)
(* whose id is in the graph or occurred earlier in the list: it returns    *)
(* EntityAlreadyExists for that id, the entities before it are added and   *)
(* none after it is; without such an entity the whole list is added.       *)
C2_AddEntitiesStopsAtFirstDuplicate ==
    \A entities \in Batches :
        LET r == add_entities(Graph, entities)
            k == FirstDuplicate(Graph, entities)
            added == IF k = 0 THEN entities ELSE SubSeq(entities, 1, k - 1)
        IN  /\ r.result = IF k = 0 THEN Ok ELSE EntityAlreadyExists(entities[k].id)
            /\ r.graph.nodes = nodes \o added
            /\ DOMAIN r.graph.entity_map
                 = DOMAIN entity_map \cup {added[i].id : i \in DOMAIN added}
            /\ r.graph.edges = edges

(* add_entities stopped at a duplicate after it had added an entity and    *)
(* before it reached the end of the list.                                  *)
C2_Witness ==
    /\ op.name = "add_entities"
    /\ ret.kind = "EntityAlreadyExists"
    /\ op.added >= 1
    /\ op.len > op.added + 1
    /\ Len(nodes) > op.added

Weights ==
    {EntityReference(f) : f \in FieldIds}
        \cup {FieldReference(f, h) : f \in FieldIds, h \in FieldIds}

(* The Reference value that an edge with weight w to entity id stands for. *)
ReferenceOf(id, w) ==
    IF w.kind = "EntityReference" THEN EntityRef(id) ELSE FieldRef(id, w.to_field)

EdgeCount(es, e) == Cardinality({i \in DOMAIN es : es[i] = e})

(* C3: after build() the edge multiset is: one edge E -> T with weight     *)
(* EntityReference{f} or FieldReference{f, g} for each occurrence, at any  *)
(* depth of List nesting, of the reference in field f of E whose target    *)
(* T is in the graph; and nothing else.                                    *)
C3_BuildCreatesExactlyTheReferenceEdges ==
    Built =>
        /\ \A i \in DOMAIN edges :
              /\ edges[i].source \in DOMAIN nodes
              /\ edges[i].target \in DOMAIN nodes
              /\ edges[i].weight \in Weights
        /\ \A n \in DOMAIN nodes, m \in DOMAIN nodes, w \in Weights :
              EdgeCount(edges, Edge(n, m, w))
                = IF w.from_field \in DOMAIN nodes[n].fields
                  THEN Occurrences(nodes[n].fields[w.from_field],
                                   ReferenceOf(nodes[m].id, w))
                  ELSE 0

(* A built graph that holds the entity with references inside a list of    *)
(* lists, both targets present: two edges for the two occurrences of the   *)
(* entity reference, one for the nested field reference.                   *)
C3_Witness ==
    /\ Built
    /\ op.name = "build"
    /\ \E n \in DOMAIN nodes, m \in DOMAIN nodes, k \in DOMAIN nodes :
          /\ nodes[n] = E3a
          /\ nodes[m].id = 1
          /\ nodes[k].id = 2
          /\ EdgeCount(edges, Edge(n, m, EntityReference("f"))) = 2
          /\ EdgeCount(edges, Edge(n, k, FieldReference("f", "g"))) = 1

SameEdgeMultiset(a, b) ==
    \A e \in {a[i] : i \in DOMAIN a} \cup {b[i] : i \in DOMAIN b} :
        EdgeCount(a, e) = EdgeCount(b, e)

(* C4: build() called on a graph that was built with no add since leaves   *)
(* the same edge multiset; build() never changes the nodes or the indices. *)
C4_BuildIsIdempotent ==
    [][op'.name = "build"
        => /\ nodes' = nodes
           /\ entity_map' = entity_map
           /\ entity_type_map' = entity_type_map
           /\ (Built => SameEdgeMultiset(edges, edges'))]_vars

(* build() ran on a built graph that holds several edges. *)
C4_Witness ==
    /\ op.name = "build"
    /\ op.again
    /\ Len(edges) >= 3

IsAdd(call) == call.name \in {"add_entity", "add_entities"}

(* C5: add_entity and add_entities leave the edges as they are, so a graph *)
(* that was never built has no edge, and after a build() the edges stay    *)
(* what that build() computed until the next build().                      *)
C5_AddsNeverTouchEdges ==
    /\ [](stage = "unbuilt" => edges = <<>>)
    /\ [][IsAdd(op') => edges' = edges]_vars

(* An add after a build(): the graph has edges, and the entity that was    *)
(* added holds a reference to an entity of the graph but has no edge.      *)
C5_Witness ==
    /\ IsAdd(op)
    /\ op.added > 0
    /\ stage = "stale"
    /\ Len(edges) > 0
    /\ \E f \in DOMAIN nodes[Len(nodes)].fields :
          \E r \in References(nodes[Len(nodes)].fields[f]) :
              /\ r.id \in IdsInGraph
              /\ \A i \in DOMAIN edges : edges[i].source # Len(nodes)

HasEdgeFor(n, f, r) ==
    /\ contains_key(entity_map, r.id)
    /\ \E i \in DOMAIN edges :
          edges[i] = Edge(n, entity_map[r.id],
                          IF r.tag = "EntityRef"
                          THEN EntityReference(f)
                          ELSE FieldReference(f, r.field))

(* C6: build() succeeds whatever the references point at. In a built graph *)
(* a reference has an edge iff its target id is in the graph, so a         *)
(* reference without a target takes no edge away from the others, and a    *)
(* reference that an earlier build() dropped has its edge once the target  *)
(* was added and build() ran again.                                        *)
C6_DanglingReferencesAreDropped ==
    /\ op.name = "build" => ret = Ok
    /\ Built =>
          /\ \A n \in DOMAIN nodes :
                \A f \in DOMAIN nodes[n].fields :
                    \A r \in References(nodes[n].fields[f]) :
                        HasEdgeFor(n, f, r) <=> r.id \in IdsInGraph
          /\ \A i \in DOMAIN edges : edges[i].target \in DOMAIN nodes
          /\ \A d \in dropped :
                (d[1] \in IdsInGraph /\ d[3] \in IdsInGraph)
                    => \E i \in DOMAIN edges :
                          /\ nodes[edges[i].source].id = d[1]
                          /\ nodes[edges[i].target].id = d[3]
                          /\ edges[i].weight.from_field = d[2]

(* A built graph in which a reference that an earlier build() dropped has  *)
(* its target, while another reference still has none and the entity that  *)
(* holds it has an edge.                                                   *)
C6_Witness ==
    /\ Built
    /\ op.name = "build"
    /\ \E d \in dropped : d[1] \in IdsInGraph /\ d[3] \in IdsInGraph
    /\ \E d \in Dangling(Graph) :
          \E i \in DOMAIN edges : nodes[edges[i].source].id = d[1]

Range(s) == {s[i] : i \in DOMAIN s}

NodesOfType(t) == {n \in DOMAIN nodes : nodes[n].entity_type = t}

(* C7: the two indices agree with the nodes in every reachable state:      *)
(* entity_map holds exactly the ids of the graph's entities, each mapped   *)
(* to the node that holds the entity; entity_type_map[t] lists exactly the *)
(* nodes of type t, each once; get_entity(id) is Some iff the id is in the *)
(* graph; list_by_type(t) is the entities of type t, empty when none.      *)
C7_IndicesAgreeWithNodes ==
    /\ DOMAIN entity_map = IdsInGraph
    /\ \A n \in DOMAIN nodes : entity_map[nodes[n].id] = n
    /\ \A t \in DOMAIN entity_type_map : NodesOfType(t) # {}
    /\ \A t \in EntityTypes :
          LET listed == IF contains_key(entity_type_map, t) THEN entity_type_map[t] ELSE <<>>
          IN  /\ Range(listed) = NodesOfType(t)
              /\ Len(listed) = Cardinality(NodesOfType(t))
              /\ Range(list_by_type(Graph, t)) = {nodes[n] : n \in NodesOfType(t)}
              /\ Len(list_by_type(Graph, t)) = Cardinality(NodesOfType(t))
    /\ \A id \in EntityIds :
          /\ get_entity(Graph, id) # <<>> <=> id \in IdsInGraph
          /\ get_entity(Graph, id) # <<>> =>
                (get_entity(Graph, id)[1].id = id /\ get_entity(Graph, id)[1] \in Range(nodes))

(* Three entities, two of one type and one of another, and a type that no  *)
(* entity has.                                                             *)
C7_Witness ==
    /\ Len(nodes) = 3
    /\ Len(list_by_type(Graph, "person")) = 2
    /\ Len(list_by_type(Graph, "organization")) = 1
    /\ list_by_type(Graph, "project") = <<>>
    /\ get_entity(Graph, 2) # <<>>

EntityOf(id) == CHOOSE e \in Range(nodes) : e.id = id

(* The ids that the fields of entity e refer to, at any depth. *)
Targets(e) == {r.id : r \in UNION {References(e.fields[f]) : f \in DOMAIN e.fields}}

RelatedIds(id, direction) == {e.id : e \in Range(get_related(Graph, id, direction).value)}

(* C8: in a built graph, for every entity A, get_related(A, Outgoing) is   *)
(* the entities of the graph that a reference in A's fields targets,       *)
(* get_related(A, Incoming) the entities that hold a reference to A, and   *)
(* get_related(A, None) the union; so B is in Outgoing of A iff A is in    *)
(* Incoming of B.                                                          *)
C8_RelatedFollowsReferences ==
    Built =>
        /\ \A a \in IdsInGraph :
              /\ RelatedIds(a, "Outgoing") = Targets(EntityOf(a)) \cap IdsInGraph
              /\ RelatedIds(a, "Incoming") = {b \in IdsInGraph : a \in Targets(EntityOf(b))}
              /\ RelatedIds(a, "None")
                    = (Targets(EntityOf(a)) \cap IdsInGraph)
                        \cup {b \in IdsInGraph : a \in Targets(EntityOf(b))}
              /\ \A d \in Directions :
                    Range(get_related(Graph, a, d).value) \subseteq Range(nodes)
        /\ \A a \in IdsInGraph, b \in IdsInGraph :
              b \in RelatedIds(a, "Outgoing") <=> a \in RelatedIds(b, "Incoming")

(* The graph of the organization and the person whose fields refer to it,  *)
(* built.                                                                  *)
C8_Witness ==
    /\ Built
    /\ Range(nodes) = {E1a, E2a}
    /\ get_related(Graph, 1, "Incoming") = Some(<<E2a>>)
    /\ get_related(Graph, 2, "Outgoing") = Some(<<E1a>>)
    /\ Len(get_related(Graph, 1, "None").value) = 1

StrictlyAscending(entities) ==
    \A i \in DOMAIN entities, j \in DOMAIN entities : i < j => entities[i].id < entities[j].id

(* C9: the list get_related returns is strictly ascending by entity id in  *)
(* every direction.                                                        *)
C9_RelatedIsSortedAndDeduplicated ==
    \A id \in IdsInGraph, d \in Directions :
        StrictlyAscending(get_related(Graph, id, d).value)

(* A built graph in which one entity refers to another from two fields and *)
(* a list, two entities refer to each other, one refers to itself, and the *)
(* list collected for it holds an id twice and out of order.               *)
C9_Witness ==
    /\ Built
    /\ Range(nodes) = {E1b, E2a, E3a}
    /\ 1 \in RelatedIds(2, "Outgoing") /\ 2 \in RelatedIds(1, "Outgoing")
    /\ 3 \in RelatedIds(3, "Outgoing") /\ 3 \in RelatedIds(3, "Incoming")
    /\ \A d \in {"Outgoing", "None"} :
          LET collected == related_unsorted(Graph, entity_map[3], d)
          IN  /\ Len(collected) > Len(get_related(Graph, 3, d).value)
              /\ ~StrictlyAscending(collected)
    /\ Len(get_related(Graph, 1, "None").value) = 2

HasEdge(n, direction) ==
    \E i \in DOMAIN edges :
        \/ direction # "Incoming" /\ edges[i].source = n
        \/ direction # "Outgoing" /\ edges[i].target = n

(* C10: get_related returns None iff the id is not the id of an entity in  *)
(* the graph; for an entity of the graph it returns Some, with the empty   *)
(* list when the entity has no edge in the direction asked for, as it is   *)
(* before any build().                                                     *)
C10_RelatedIsNoneOnlyForUnknownId ==
    \A id \in EntityIds, d \in Directions :
        LET related == get_related(Graph, id, d)
        IN  /\ related = None <=> id \notin IdsInGraph
            /\ id \in IdsInGraph =>
                  /\ related.some
                  /\ (\A n \in DOMAIN nodes : nodes[n].id = id => ~HasEdge(n, d))
                        => related = Some(<<>>)
                  /\ stage = "unbuilt" => related = Some(<<>>)

(* A graph that was never built: two entities that refer to each other     *)
(* have no related entity, and the id that was not added gives None.       *)
C10_Witness ==
    /\ stage = "unbuilt"
    /\ Range(nodes) = {E1b, E2a}
    /\ get_related(Graph, 1, "Outgoing") = Some(<<>>)
    /\ get_related(Graph, 2, "None") = Some(<<>>)
    /\ get_related(Graph, 3, "Incoming") = None

(* The field data alone, without the edges: what entity `id` holds in its  *)
(* field `field_id`, as a set of at most one value.                        *)
HeldBy(id, field_id) ==
    {nodes[n].fields[field_id] :
        n \in {m \in DOMAIN nodes :
                 nodes[m].id = id /\ field_id \in DOMAIN nodes[m].fields}}

HeldValue(id, field_id) == CHOOSE v \in HeldBy(id, field_id) : TRUE

HoldsFieldReference(id, field_id) ==
    \E v \in HeldBy(id, field_id) : v.tag = "FieldRef"

HoldsTerminal(id, field_id) ==
    \E v \in HeldBy(id, field_id) : v.tag # "FieldRef"

FieldsInGraph == UNION {DOMAIN nodes[n].fields : n \in DOMAIN nodes}

(* More than the number of (entity, field) pairs a chain can go through    *)
(* without coming back to one of them.                                     *)
ChainFuel == Cardinality(IdsInGraph) * Cardinality(FieldsInGraph) + 1

RECURSIVE ChainFrom(_, _, _)
(* The (entity, field) pairs met from (id, field_id) by following the      *)
(* field references the fields hold, the first pair included, up to the    *)
(* first pair that holds no field reference.                               *)
ChainFrom(id, field_id, fuel) ==
    IF fuel = 0 \/ ~HoldsFieldReference(id, field_id)
    THEN <<<<id, field_id>>>>
    ELSE LET next == HeldValue(id, field_id)
         IN  <<<<id, field_id>>>> \o ChainFrom(next.id, next.field, fuel - 1)

Chain(id, field_id) == ChainFrom(id, field_id, ChainFuel)

ChainEnd(id, field_id) ==
    LET c == Chain(id, field_id)
    IN  c[Len(c)]

(* The chain from (id, field_id) ends in a field that holds a value which  *)
(* is not a field reference.                                               *)
ReachesTerminal(id, field_id) ==
    LET end == ChainEnd(id, field_id)
    IN  HoldsTerminal(end[1], end[2])

TerminalOf(id, field_id) ==
    LET end == ChainEnd(id, field_id)
    IN  HeldValue(end[1], end[2])

(* C11 as stated: in a built graph resolve_field_reference on (E, f)       *)
(* returns the value of the first field of the chain from (E, f) that does *)
(* not hold a field reference, however long the chain is.  A chain of more *)
(* than DefaultMaxDepth fields refutes it.                                 *)
C11_AnyChainResolves ==
    Built =>
        \A id \in IdsInGraph, field_id \in FieldsInGraph :
            ReachesTerminal(id, field_id) =>
                resolve_field_reference(Graph, FieldRef(id, field_id))
                    = ResolveOk(TerminalOf(id, field_id))

(* C11, amended: in a built graph resolve_field_reference on (E, f)        *)
(* returns the value of the first field of the chain from (E, f) that does *)
(* not hold a field reference, inside one entity or across entities, when  *)
(* the chain has at most DefaultMaxDepth fields, that one included.        *)
C11_ChainWithinBudgetResolves ==
    Built =>
        \A id \in IdsInGraph, field_id \in FieldsInGraph :
            (/\ ReachesTerminal(id, field_id)
             /\ Len(Chain(id, field_id)) <= DefaultMaxDepth) =>
                resolve_field_reference(Graph, FieldRef(id, field_id))
                    = ResolveOk(TerminalOf(id, field_id))

(* A built graph where a chain of four fields, going through two entities, *)
(* resolves to the literal at its end.                                     *)
C11_Witness ==
    /\ Built
    /\ \E id \in IdsInGraph, field_id \in FieldsInGraph :
          /\ ReachesTerminal(id, field_id)
          /\ Len(Chain(id, field_id)) = 4
          /\ \E i \in 1..4 : Chain(id, field_id)[i][1] # id
          /\ TerminalOf(id, field_id).tag = "String"
          /\ resolve_field_reference(Graph, FieldRef(id, field_id))
                = ResolveOk(TerminalOf(id, field_id))

(* The numbers of steps after which the chain from (id, field_id) is back  *)
(* at (id, field_id).                                                      *)
CycleLengths(id, field_id) ==
    LET c == Chain(id, field_id)
    IN  {k \in 1..(Len(c) - 1) : c[k + 1] = <<id, field_id>>}

(* The field refers to itself, directly or through other fields. *)
OnCycle(id, field_id) == CycleLengths(id, field_id) # {}

(* The number of fields on the cycle of (id, field_id). *)
CycleLength(id, field_id) ==
    LET lengths == CycleLengths(id, field_id)
    IN  CHOOSE k \in lengths : \A l \in lengths : k <= l

(* C12 as stated: in a built graph resolve_field_reference on a field that *)
(* refers to itself, directly or through any number of other fields,       *)
(* returns CyclicReference.  A cycle of DefaultMaxDepth fields refutes it. *)
C12_AnyCycleIsCyclicReference ==
    Built =>
        \A id \in IdsInGraph, field_id \in FieldsInGraph :
            OnCycle(id, field_id) =>
                resolve_field_reference(Graph, FieldRef(id, field_id)) = CyclicReference

(* C12, amended: in a built graph resolve_field_reference on a field that  *)
(* refers to itself returns CyclicReference when the cycle has fewer than  *)
(* DefaultMaxDepth fields (the field alone, or the field and up to eight   *)
(* others), and MaxDepthExceeded when the cycle has more.                  *)
C12_ShortCycleIsCyclicReference ==
    Built =>
        \A id \in IdsInGraph, field_id \in FieldsInGraph :
            OnCycle(id, field_id) =>
                resolve_field_reference(Graph, FieldRef(id, field_id))
                    = IF CycleLength(id, field_id) < DefaultMaxDepth
                      THEN CyclicReference
                      ELSE MaxDepthExceeded

(* A built graph with a cycle of four fields in two entities: resolving a  *)
(* field of the cycle gives CyclicReference.                               *)
C12_Witness ==
    /\ Built
    /\ \E id \in IdsInGraph, field_id \in FieldsInGraph :
          /\ OnCycle(id, field_id)
          /\ CycleLength(id, field_id) = 4
          /\ \E i \in 1..4 : Chain(id, field_id)[i][1] # id
          /\ resolve_field_reference(Graph, FieldRef(id, field_id)) = CyclicReference

(* C13: in a built graph, on a chain of field references that ends in a    *)
(* field holding another kind of value, resolve_field_reference returns    *)
(* MaxDepthExceeded exactly when the chain has more than DefaultMaxDepth   *)
(* (entity, field) pairs, the last one included, and that value otherwise. *)
C13_MaxDepthExceededBeyondBudget ==
    Built =>
        \A id \in IdsInGraph, field_id \in FieldsInGraph :
            ReachesTerminal(id, field_id) =>
                /\ (resolve_field_reference(Graph, FieldRef(id, field_id)) = MaxDepthExceeded)
                      <=> (Len(Chain(id, field_id)) > DefaultMaxDepth)
                /\ Len(Chain(id, field_id)) <= DefaultMaxDepth =>
                      /\ resolve_field_reference(Graph, FieldRef(id, field_id))
                            = ResolveOk(TerminalOf(id, field_id))
                      /\ Len(resolve_field_reference_search(
                                 Graph, FieldRef(id, field_id)).visited)
                            = Len(Chain(id, field_id))

(* A built graph where a chain of exactly DefaultMaxDepth pairs resolves   *)
(* and the chain that starts one field earlier exceeds the depth.          *)
C13_Witness ==
    /\ Built
    /\ \E id \in IdsInGraph, field_id, longer \in FieldsInGraph :
          /\ ReachesTerminal(id, field_id)
          /\ Len(Chain(id, field_id)) = DefaultMaxDepth
          /\ resolve_field_reference(Graph, FieldRef(id, field_id))
                = ResolveOk(TerminalOf(id, field_id))
          /\ Chain(id, longer) = <<<<id, longer>>>> \o Chain(id, field_id)
          /\ resolve_field_reference(Graph, FieldRef(id, longer)) = MaxDepthExceeded

(* The field references handed to resolve_field_reference. *)
FieldReferenceInputs == {FieldRef(id, field_id) : id \in EntityIds, field_id \in FieldIds}

(* resolve_field_reference without the edges: what the field data give at  *)
(* the first step.                                                         *)
FirstStep(id, field_id) ==
    IF id \notin IdsInGraph
    THEN EntityNotFound(id)
    ELSE IF HeldBy(id, field_id) = {}
    THEN FieldNotFound(id, field_id)
    ELSE IF HoldsTerminal(id, field_id)
    THEN ResolveOk(HeldValue(id, field_id))
    ELSE IF HeldValue(id, field_id).id \notin IdsInGraph
    THEN EntityNotFound(HeldValue(id, field_id).id)
    ELSE GraphNotBuilt

Populated == nodes # <<>>

(* C14 as stated: on a populated graph that was never built,               *)
(* resolve_field_reference on a field reference returns GraphNotBuilt.  A  *)
(* field reference to a field that holds a string refutes it.              *)
C14_UnbuiltAlwaysGraphNotBuilt ==
    (stage = "unbuilt" /\ Populated) =>
        \A v \in FieldReferenceInputs :
            resolve_field_reference(Graph, v) = GraphNotBuilt

(* C14, amended: on a populated graph that was never built,                *)
(* resolve_field_reference on a field reference (E, f) returns             *)
(* GraphNotBuilt when E is in the graph and its field f holds a field      *)
(* reference to an entity of the graph; it returns EntityNotFound(E) when  *)
(* E is not in the graph, FieldNotFound(E, f) when E has no field f, the   *)
(* value of f when that is no field reference, and EntityNotFound(T) when  *)
(* f refers to a field of an entity T that is not in the graph.            *)
C14_UnbuiltStopsAtFirstFieldReference ==
    (stage = "unbuilt" /\ Populated) =>
        \A v \in FieldReferenceInputs :
            resolve_field_reference(Graph, v) = FirstStep(v.id, v.field)

(* A populated, never built graph where a field reference whose chain of   *)
(* field data ends in a string gives GraphNotBuilt.                        *)
C14_Witness ==
    /\ stage = "unbuilt"
    /\ Populated
    /\ \E v \in FieldReferenceInputs :
          /\ resolve_field_reference(Graph, v) = GraphNotBuilt
          /\ ReachesTerminal(v.id, v.field)
          /\ TerminalOf(v.id, v.field).tag = "String"

(* The (entity, field) pairs of the calls of search_field_reference, in    *)
(* order: the pairs visited by the calls that went on, then the pair of    *)
(* the innermost call.                                                     *)
Calls(s) ==
    SubSeq(s.visited, 1, DefaultMaxDepth - s.last.depth)
    \o <<<<s.last.entity, s.last.field>>>>

(* The graph has an edge from the entity of pair a to the entity of pair b *)
(* with weight FieldReference{from_field = a's field, to_field = b's}.     *)
FieldEdge(a, b) ==
    \E i \in DOMAIN edges :
        /\ nodes[edges[i].source].id = a[1]
        /\ nodes[edges[i].target].id = b[1]
        /\ edges[i].weight = FieldReference(a[2], b[2])

(* The pair that the field reference held by pair a refers to. *)
TargetOf(a) == <<HeldValue(a[1], a[2]).id, HeldValue(a[1], a[2]).field>>

(* C15: resolution goes from a field holding a field reference to (T, g),  *)
(* T in the graph, on to (T, g) only over an edge from the current entity  *)
(* to T with weight FieldReference{from_field = the current field,         *)
(* to_field = g}; without such an edge the result is GraphNotBuilt, also   *)
(* when the field data alone lead to a terminal value, and GraphNotBuilt   *)
(* has no other cause.                                                     *)
C15_ContinuesOnlyOverFieldReferenceEdge ==
    \A v \in FieldReferenceInputs :
        LET s == resolve_field_reference_search(Graph, v)
            calls == Calls(s)
            last == calls[Len(calls)]
        IN  /\ \A k \in 1..(Len(calls) - 1) :
                  /\ HoldsFieldReference(calls[k][1], calls[k][2])
                  /\ TargetOf(calls[k]) = calls[k + 1]
                  /\ FieldEdge(calls[k], calls[k + 1])
            /\ (s.result = GraphNotBuilt)
                  <=> (/\ Len(s.visited) = Len(calls)
                       /\ HoldsFieldReference(last[1], last[2])
                       /\ TargetOf(last)[1] \in IdsInGraph
                       /\ ~FieldEdge(last, TargetOf(last)))

(* An entity was added after build(): resolution goes over the edge of the *)
(* first field reference and stops with GraphNotBuilt at the second, which *)
(* has no edge, although the field data lead to a string.                  *)
C15_Witness ==
    /\ stage = "stale"
    /\ \E v \in FieldReferenceInputs :
          LET s == resolve_field_reference_search(Graph, v)
          IN  /\ s.result = GraphNotBuilt
              /\ Len(s.visited) = 2
              /\ FieldEdge(s.visited[1], s.visited[2])
              /\ ReachesTerminal(v.id, v.field)
              /\ TerminalOf(v.id, v.field).tag = "String"

(* The field references handed to resolve_field_reference in the chain     *)
(* graphs: every field of the chains, one field no entity has, and the     *)
(* fields of an entity that is not in the graph.                           *)
ChainInputs ==
    {FieldRef(id, ChainFieldIds[i]) : id \in {1, 2, ChainMissingId}, i \in 1..(MaxChain + 1)}

(* Values that are no field reference. *)
OtherInputs ==
    {StringValue("x"), EntityRef(1), EntityRef(ChainMissingId),
     ListValue(<<FieldRef(1, ChainFieldIds[1])>>)}

(* C16: resolve_field_reference gives NotAFieldReference for a value that  *)
(* is no field reference, an entity reference included; then each call of  *)
(* the search checks in this order: remaining depth 0 gives                *)
(* MaxDepthExceeded, an (entity, field) pair already visited gives         *)
(* CyclicReference, an entity id not in the graph gives EntityNotFound of  *)
(* that id, a field the entity does not have gives FieldNotFound of the    *)
(* entity id and the field id.  The first condition that holds decides.    *)
C16_ChecksInFixedOrder ==
    /\ \A v \in OtherInputs :
          resolve_field_reference(Graph, v) = NotAFieldReference
    /\ \A v \in ChainInputs :
          LET s == resolve_field_reference_search(Graph, v)
              before == SubSeq(s.visited, 1, DefaultMaxDepth - s.last.depth)
              e == s.last.entity
              f == s.last.field
          IN  IF s.last.depth = 0
              THEN s.result = MaxDepthExceeded
              ELSE IF <<e, f>> \in Range(before)
              THEN s.result = CyclicReference
              ELSE IF e \notin IdsInGraph
              THEN s.result = EntityNotFound(e)
              ELSE IF HeldBy(e, f) = {}
              THEN s.result = FieldNotFound(e, f)
              ELSE /\ s.result.kind \in {"Ok", "GraphNotBuilt", "EntityNotFound"}
                   /\ s.result.kind = "EntityNotFound" =>
                         /\ HoldsFieldReference(e, f)
                         /\ s.result = EntityNotFound(HeldValue(e, f).id)
                         /\ HeldValue(e, f).id \notin IdsInGraph

(* A built graph where two conditions hold at the innermost call: the      *)
(* depth is used up at a pair that was visited before (a cycle of          *)
(* DefaultMaxDepth fields), and the depth decides.                         *)
C16_Witness ==
    /\ Built
    /\ \E v \in ChainInputs :
          LET s == resolve_field_reference_search(Graph, v)
          IN  /\ s.last.depth = 0
              /\ <<s.last.entity, s.last.field>> \in Range(s.visited)
              /\ s.result = MaxDepthExceeded

(* Every value handed to resolve_field_reference in the small graphs. *)
ResolveInputs ==
    FieldReferenceInputs
    \cup {StringValue("x"), EntityRef(1), ListValue(<<FieldRef(1, "f")>>)}

(* C17 as stated: when resolve_field_reference returns Ok the value is no  *)
(* reference, neither a field reference nor an entity reference.  A field  *)
(* that holds an entity reference refutes it.                              *)
C17_OkIsNeverAReference ==
    \A v \in ResolveInputs :
        LET r == resolve_field_reference(Graph, v)
        IN  r.kind = "Ok" => ~IsReference(r.value[1])

(* C17, amended: when resolve_field_reference returns Ok the value is what *)
(* a field of the graph holds and it is no field reference; it can be an   *)
(* entity reference.                                                       *)
C17_OkIsNeverAFieldReference ==
    \A v \in ResolveInputs :
        LET r == resolve_field_reference(Graph, v)
        IN  r.kind = "Ok" =>
                /\ r.value[1].tag # "FieldRef"
                /\ \E id \in IdsInGraph, field_id \in FieldIds :
                      r.value[1] \in HeldBy(id, field_id)

(* A built graph where a chain of two field references resolves to an      *)
(* entity reference.                                                       *)
C17_Witness ==
    /\ Built
    /\ \E v \in ResolveInputs :
          LET s == resolve_field_reference_search(Graph, v)
          IN  /\ s.result.kind = "Ok"
              /\ Len(s.visited) >= 2
              /\ s.result.value[1].tag = "EntityRef"

(* The values handed to resolve_entity_reference. *)
EntityReferenceInputs ==
    {EntityRef(id) : id \in EntityIds}
    \cup {FieldRef(1, "f"), FieldRef(3, "g"), StringValue("x"), ListValue(<<EntityRef(1)>>)}

ExpectedEntity(v) ==
    IF v.tag # "EntityRef"
    THEN NotAnEntityReference
    ELSE IF v.id \in IdsInGraph
    THEN ResolveOk(CHOOSE e \in Range(nodes) : e.id = v.id)
    ELSE EntityNotFound(v.id)

(* C18: resolve_entity_reference returns the entity with id X iff the      *)
(* value is an entity reference to X and X is in the graph,                *)
(* EntityNotFound(X) when X is not in the graph, NotAnEntityReference for  *)
(* every other kind of value, a field reference included; build() does not *)
(* change its result.                                                      *)
C18_EntityReferenceResolvesByIdOnly ==
    /\ [](\A v \in EntityReferenceInputs :
             resolve_entity_reference(Graph, v) = ExpectedEntity(v))
    /\ [][op'.name = "build" =>
             \A v \in EntityReferenceInputs :
                 resolve_entity_reference(
                     EntityGraph(nodes', edges', entity_map', entity_type_map'), v)
                     = resolve_entity_reference(Graph, v)]_vars

(* build() has just added edges, and the three results occur: an entity,   *)
(* EntityNotFound and NotAnEntityReference for a field reference.          *)
C18_Witness ==
    /\ op.name = "build"
    /\ edges # <<>>
    /\ \E v \in EntityReferenceInputs : resolve_entity_reference(Graph, v).kind = "Ok"
    /\ \E v \in EntityReferenceInputs :
          resolve_entity_reference(Graph, v).kind = "EntityNotFound"
    /\ resolve_entity_reference(Graph, FieldRef(1, "f")) = NotAnEntityReference

(* The fields the schema declares and the entity does not have. *)
AbsentFields(schema, entity) == DOMAIN schema.fields \ DOMAIN entity.fields

(* The declared fields the entity has with another type tag. *)
WrongTypeFields(schema, entity) ==
    {field_id \in DOMAIN schema.fields \cap DOMAIN entity.fields :
        get_type(entity.fields[field_id]) # schema.fields[field_id].field_type}

(* The violations of C19. *)
Violations(schema, entity) ==
    {mismatched_entity_type(entity.id, schema.entity_type, entity.entity_type) :
        x \in IF entity.entity_type # schema.entity_type THEN {1} ELSE {}}
    \cup {missing_field(entity.id, field_id) :
            field_id \in {a \in AbsentFields(schema, entity) :
                            schema.fields[a].field_mode = "Required"}}
    \cup {mismatched_field_type(entity.id, field_id,
                                schema.fields[field_id].field_type,
                                get_type(entity.fields[field_id])) :
            field_id \in WrongTypeFields(schema, entity)}

(* C19: validate returns all violations together and exactly these: one    *)
(* MismatchedEntityType iff the type of the entity differs from that of    *)
(* the schema; for each declared field one MissingRequiredField iff it is  *)
(* required and absent, one MismatchedFieldType(expected, actual) iff it   *)
(* is present with another type tag; nothing for an absent optional field  *)
(* and nothing for a field the schema does not declare.  The result is Ok  *)
(* iff there is no violation.                                              *)
C19_ValidateReturnsAllViolations ==
    op.name = "validate" =>
        /\ Range(ret.errors) = Violations(input.schema, input.entity)
        /\ Len(ret.errors) = Cardinality(Violations(input.schema, input.entity))
        /\ (ret.kind = "Ok") <=> (Violations(input.schema, input.entity) = {})
        /\ \A i \in DOMAIN ret.errors :
              ret.errors[i].field \in DOMAIN input.schema.fields \cup {NoField}

(* An entity of the right type that lacks one required field and has one   *)
(* field of the wrong type: exactly two violations.                        *)
C19_Witness ==
    /\ op.name = "validate"
    /\ input.entity.entity_type = input.schema.entity_type
    /\ Cardinality(AbsentFields(input.schema, input.entity)) = 1
    /\ Cardinality(WrongTypeFields(input.schema, input.entity)) = 1
    /\ ret.kind = "Err"
    /\ Len(ret.errors) = 2
    /\ {ret.errors[i].error_type.kind : i \in DOMAIN ret.errors}
          = {"MissingRequiredField", "MismatchedFieldType"}

(* The places of the schemas declared in the files of the workspace: the   *)
(* path of the file and the position in the file.                          *)
Declared ==
    {<<path, i>> : path \in DOMAIN workspace, i \in 1..2} \cap
    UNION {{<<path, i>> : i \in DOMAIN workspace[path].schemas} : path \in DOMAIN workspace}

(* The declared schemas that have a name. *)
Named == {d \in Declared : workspace[d[1]].schemas[d[2]].name # <<>>}

DeclaredType(d) == EntityType_new(workspace[d[1]].schemas[d[2]].name[1])

BuiltinTypes == {all_builtin[i].entity_type : i \in DOMAIN all_builtin}

(* A declared schema has the entity type of a built-in schema. *)
RedeclaresBuiltin == \E d \in Named : DeclaredType(d) \in BuiltinTypes

(* Two declared schemas have the same entity type. *)
DeclaredTwice == \E d, e \in Named : d # e /\ DeclaredType(d) = DeclaredType(e)

(* C20: Workspace build fails with an error, and returns neither entities  *)
(* nor schemas, when a schema declared in a source has the entity type of  *)
(* a built-in schema or of a schema registered earlier in the same build;  *)
(* a registered schema is never replaced or merged: a build that succeeds  *)
(* returns every built-in schema as it is and one schema for every         *)
(* declared one.                                                           *)
C20_SchemaTypeConflictFailsBuild ==
    op.name = "workspace_build" =>
        /\ (RedeclaresBuiltin \/ DeclaredTwice) =>
              /\ ret.kind = "Err"
              /\ ret.build = <<>>
              /\ \/ ret.error[1].kind = "ParseError"
                 \/ /\ ret.error[1].kind = "ValidationError"
                    /\ ret.error[1].message = <<"Stuff">>
        /\ ret.kind = "Ok" =>
              /\ \A i \in DOMAIN all_builtin : all_builtin[i] \in ret.build[1].schemas
              /\ \A d \in Declared :
                    EntitySchema_try_from(workspace[d[1]].schemas[d[2]]).value[1]
                        \in ret.build[1].schemas
              /\ Cardinality(ret.build[1].schemas) = Len(all_builtin) + Cardinality(Declared)

(* A build of a workspace in which one file declares a schema named after  *)
(* the built-in person and the other is fine: the build fails at that file *)
(* and returns nothing.                                                    *)
C20_Witness ==
    /\ op.name = "workspace_build"
    /\ Cardinality(DOMAIN workspace) = 2
    /\ RedeclaresBuiltin
    /\ ~DeclaredTwice
    /\ ret.kind = "Err"
    /\ ret.build = <<>>
    /\ ret.error[1].kind = "ValidationError"
    /\ ret.error[1].message = <<"Stuff">>
    /\ DeclaredType(<<ret.error[1].path, 1>>) = "person"

(* The failures of resolve_field_reference on a graph that is built. *)
BuiltFailures ==
    {"NotAFieldReference", "EntityNotFound", "FieldNotFound", "CyclicReference",
     "MaxDepthExceeded"}

(* C29: after build() with no entity added since, resolve_field_reference  *)
(* never returns GraphNotBuilt, whatever the value and the graph: every    *)
(* failure is NotAFieldReference, EntityNotFound, FieldNotFound,           *)
(* CyclicReference or MaxDepthExceeded.  GraphNotBuilt occurs only when    *)
(* build() was never called, or not since the last clear(), or an entity   *)
(* was added after the last build().                                       *)
C29_BuiltGraphNeverGraphNotBuilt ==
    \A v \in ResolveInputs :
        LET r == resolve_field_reference(Graph, v)
        IN  /\ Built => r.kind \in BuiltFailures \cup {"Ok"}
            /\ r = GraphNotBuilt => stage \in {"unbuilt", "stale"}

(* A built graph and a field reference that the field data alone would     *)
(* leave at GraphNotBuilt: the edge is there and the search goes on.       *)
C29_Witness ==
    /\ Built
    /\ op.name = "build"
    /\ \E v \in FieldReferenceInputs :
          /\ FirstStep(v.id, v.field) = GraphNotBuilt
          /\ resolve_field_reference(Graph, v).kind \in BuiltFailures \cup {"Ok"}

(* The schemas a build registers when its first pass succeeds: the         *)
(* built-in ones and the declared ones, converted.                         *)
Registered ==
    {all_builtin[i] : i \in DOMAIN all_builtin}
    \cup {EntitySchema_try_from(workspace[d[1]].schemas[d[2]]).value[1] :
            d \in {e \in Declared : EntitySchema_try_from(workspace[e[1]].schemas[e[2]]).ok}}

(* The first pass of the build fails. *)
FirstPassFails ==
    \/ RedeclaresBuiltin
    \/ DeclaredTwice
    \/ \E d \in Declared : ~EntitySchema_try_from(workspace[d[1]].schemas[d[2]]).ok

RECURSIVE Visited(_)
(* The parsed entities in the order the second pass comes to them, each    *)
(* with the path of its file.                                              *)
Visited(order) ==
    IF order = <<>>
    THEN <<>>
    ELSE [i \in DOMAIN workspace[Head(order)].entities |->
             [path |-> Head(order), parsed |-> workspace[Head(order)].entities[i]]]
         \o Visited(Tail(order))

SchemasOf(entity_type) == {schema \in Registered : schema.entity_type = entity_type}

(* The entity has no schema, or it violates the schema of its type. *)
Offends(entity) ==
    \/ SchemasOf(entity.entity_type) = {}
    \/ \E schema \in SchemasOf(entity.entity_type) : Violations(schema, entity) # {}

(* The second pass stops at this parsed entity. *)
Stops(parsed) ==
    \/ ~Entity_try_from(parsed).ok
    \/ Offends(Entity_try_from(parsed).value[1])

(* C21: the build returns a ValidationError and no build result as soon as *)
(* it comes to an entity whose type has neither a built-in nor a user      *)
(* schema, or that fails validation against the schema of its type: the    *)
(* error names the file of the first such entity.  When the build          *)
(* succeeds, every returned entity has a schema and has no violation       *)
(* against it, and every entity of the files is returned.                  *)
C21_BuildStopsAtFirstOffendingEntity ==
    (op.name = "workspace_build" /\ ~FirstPassFails) =>
        LET visited == Visited(input.order)
            stops == {i \in DOMAIN visited : Stops(visited[i].parsed)}
        IN  IF stops = {}
            THEN /\ ret.kind = "Ok"
                 /\ ret.build[1].entities =
                       [i \in DOMAIN visited |-> Entity_try_from(visited[i].parsed).value[1]]
                 /\ \A i \in DOMAIN ret.build[1].entities :
                       /\ \E schema \in ret.build[1].schemas :
                             schema.entity_type = ret.build[1].entities[i].entity_type
                       /\ \A schema \in ret.build[1].schemas :
                             schema.entity_type = ret.build[1].entities[i].entity_type
                                => Violations(schema, ret.build[1].entities[i]) = {}
            ELSE LET first == CHOOSE i \in stops : \A j \in stops : i <= j
                 IN  /\ ret.kind = "Err"
                     /\ ret.build = <<>>
                     /\ ret.error[1].path = visited[first].path
                     /\ ret.error[1].kind =
                           IF Entity_try_from(visited[first].parsed).ok
                           THEN "ValidationError"
                           ELSE "ParseError"

(* A build that converted and validated one entity and then came to an     *)
(* entity of a type without a schema, while the other file holds an entity *)
(* that fails validation: the error is the ValidationError of the first.   *)
C21_Witness ==
    /\ op.name = "workspace_build"
    /\ ~FirstPassFails
    /\ Len(input.order) = 2
    /\ Len(workspace[input.order[1]].entities) = 2
    /\ Cardinality({i \in DOMAIN Visited(input.order) :
                       Stops(Visited(input.order)[i].parsed)}) = 2
    /\ ret.kind = "Err"
    /\ ret.build = <<>>
    /\ ret.error[1].kind = "ValidationError"
    /\ ret.error[1].path = input.order[1]
    /\ ret.error[1].message[1] = "No schema found for entity type"

(* The files with the schemas of a.firm declared in b.firm and the other   *)
(* way round, the entities staying where they are.                         *)
SchemasMoved ==
    [path \in DOMAIN workspace |->
        ParsedSource(
            IF DOMAIN workspace = Paths
            THEN workspace[CHOOSE other \in Paths : other # path].schemas
            ELSE workspace[path].schemas,
            workspace[path].entities)]

(* The entities of a build without their order, nothing for a failed build. *)
Built_entities(r) == IF r.kind = "Ok" THEN Range(r.build[1].entities) ELSE {}

Built_schemas(r) == IF r.kind = "Ok" THEN r.build[1].schemas ELSE {}

(* C27: the build registers the schemas of all files before it converts or *)
(* validates an entity.  A failure of the first pass is what the build     *)
(* returns even when an entity of a file visited earlier has no schema or  *)
(* fails validation; whether the build succeeds, and with which entities   *)
(* and schemas, depends neither on the order in which the files are        *)
(* visited nor on which file declares a schema.                            *)
C27_SchemasRegisteredBeforeEntities ==
    op.name = "workspace_build" =>
        /\ FirstPassFails =>
              /\ ret.kind = "Err"
              /\ \/ /\ ret.error[1].kind = "ParseError"
                    /\ \E d \in Declared :
                          /\ d[1] = ret.error[1].path
                          /\ ret.error[1].message =
                                EntitySchema_try_from(workspace[d[1]].schemas[d[2]]).error
                 \/ /\ ret.error[1].kind = "ValidationError"
                    /\ ret.error[1].message = <<"Stuff">>
        /\ \A order \in Orders(DOMAIN workspace) :
              /\ build_with_progress(workspace, order).kind = ret.kind
              /\ Built_entities(build_with_progress(workspace, order)) = Built_entities(ret)
              /\ Built_schemas(build_with_progress(workspace, order)) = Built_schemas(ret)
              /\ build_with_progress(SchemasMoved, order).kind = ret.kind
              /\ Built_entities(build_with_progress(SchemasMoved, order)) = Built_entities(ret)
              /\ Built_schemas(build_with_progress(SchemasMoved, order)) = Built_schemas(ret)

(* A build that visits first the file with an invoice and then the file    *)
(* that declares the schema of invoices, and succeeds.                     *)
C27_Witness ==
    /\ op.name = "workspace_build"
    /\ Len(input.order) = 2
    /\ workspace[input.order[1]].schemas = <<>>
    /\ \E i \in DOMAIN workspace[input.order[1]].entities :
          workspace[input.order[1]].entities[i].entity_type = <<invoice>>
    /\ \E i \in DOMAIN workspace[input.order[2]].schemas :
          workspace[input.order[2]].schemas[i].name = <<invoice>>
    /\ ret.kind = "Ok"
    /\ Len(ret.build[1].entities) >= 1

(* The field type strings the language documents, each with the FieldType  *)
(* of the same name.                                                       *)
RecognizedTypes ==
    [boolean |-> "Boolean", string |-> "String", integer |-> "Integer",
     float |-> "Float", currency |-> "Currency", reference |-> "Reference",
     list |-> "List", datetime |-> "DateTime", path |-> "Path"]

(* C22: the conversion of a schema maps each of the type strings boolean,  *)
(* string, integer, float, currency, reference, list, datetime and path to *)
(* the FieldType of the same name, and fails with UnknownFieldType         *)
(* carrying the string for every other type string.  The code has no arm   *)
(* for "path": a schema with a field of type "path" fails to convert.      *)
C22_ConvertsEveryRecognizedType ==
    (/\ op.name = "try_from"
     /\ input.parsed.name # <<>>
     /\ Len(input.parsed.fields) = 1
     /\ input.parsed.fields[1].name # <<>>
     /\ input.parsed.fields[1].field_type # <<>>) =>
        LET field == input.parsed.fields[1]
            type_str == field.field_type[1]
        IN  IF type_str \in DOMAIN RecognizedTypes
            THEN /\ ret.ok
                 /\ ret.value[1].fields[field.name[1]].field_type = RecognizedTypes[type_str]
            ELSE /\ ~ret.ok
                 /\ ret.error = <<"UnknownFieldType", type_str>>

(* The value children of the list node that is extracted. *)
Elements == SelectSeq(input.children, LAMBDA child : child.kind = VALUE_KIND)

(* The type tag of an element that extracts. *)
TagOf(element) == get_type_name(from_node(element).value[1])

(* The positions of the elements that do not extract. *)
Failing == {i \in DOMAIN Elements : ~from_node(Elements[i]).ok}

(* The positions of the elements that extract with a tag other than that   *)
(* of element 0.                                                           *)
Differing ==
    {i \in DOMAIN Elements \ Failing : 1 \notin Failing /\ TagOf(Elements[i]) # TagOf(Elements[1])}

Least(S) == CHOOSE i \in S : \A j \in S : i <= j

(* C23 as stated: extracting a list succeeds iff every element has the     *)
(* type tag of the first element, and fails with HeterogeneousList         *)
(* otherwise.  A list with an element that does not extract, such as a     *)
(* date that is no date, refutes it: the list fails with the error of that *)
(* element.                                                                *)
C23_ListFailsOnlyAsHeterogeneous ==
    op.name = "parse_list" =>
        IF Failing = {} /\ Differing = {}
        THEN ret.ok
        ELSE /\ ~ret.ok
             /\ ret.error[1].kind = "HeterogeneousList"

(* C23, amended: for a list whose elements all extract, the extraction     *)
(* succeeds, with the elements in order, iff every element has the type    *)
(* tag of the first one (the empty list succeeds); otherwise it fails with *)
(* HeterogeneousList where index is the position, counted from 0, of the   *)
(* first element whose tag differs from that of element 0, expected_type   *)
(* is the type name of element 0 and found_type that of the offending      *)
(* element.  When an element does not extract, the list fails with the     *)
(* error of the first such element, unless an element before it has a      *)
(* differing tag.                                                          *)
C23_ListIsHomogeneousOrFirstError ==
    op.name = "parse_list" =>
        LET stops == Failing \cup Differing
        IN  IF stops = {}
            THEN /\ ret.ok
                 /\ ret.value[1] =
                       ParsedList([i \in DOMAIN Elements |-> from_node(Elements[i]).value[1]])
            ELSE /\ ~ret.ok
                 /\ ret.error[1] =
                       IF Least(stops) \in Failing
                       THEN from_node(Elements[Least(stops)]).error[1]
                       ELSE HeterogeneousList(TagOf(Elements[1]),
                                              TagOf(Elements[Least(stops)]),
                                              Least(stops) - 1)

(* The list ["x", 1]: HeterogeneousList with index 1, expected String and  *)
(* found Integer.                                                          *)
C23_Witness ==
    /\ op.name = "parse_list"
    /\ Len(Elements) = 2
    /\ from_node(Elements[1]) = ParseOk(ParsedString("x"))
    /\ from_node(Elements[2]) = ParseOk(ParsedInteger("1"))
    /\ ret = ParseErr(HeterogeneousList("String", "Integer", 1))

HasDot(s) == \E i \in DOMAIN s : s[i] = "."

HasUppercase(s) == \E i \in DOMAIN s : is_uppercase(s[i])

HasDelimiter(s) == \E i \in DOMAIN s : s[i] \in WordDelimiters

(* The string is what snake case makes of it. *)
IsSnake(s) == to_case_snake(s) = s

(* As the sources state it: for every entity type and every local id that  *)
(* contains no '.', decomposing the composed id returns the type and the   *)
(* local id.                                                               *)
C24_RoundTripForEveryTypeAndLocalId ==
    (op.name = "decompose_entity_id" /\ ~HasDot(input.entity_id)) =>
        ret = <<input.entity_type, input.entity_id>>

(* C24: for every entity type and every local id that contain no '.' and   *)
(* are in snake case already, decomposing the id composed of them returns  *)
(* exactly the type and the local id; a type or a local id that has an     *)
(* upper case letter is never returned as it was given, the parts returned *)
(* have none: a type of one word, without '.', is returned in lower case.  *)
C24_RoundTripOfSnakeCaseParts ==
    op.name = "decompose_entity_id" =>
        /\ (~HasDot(input.entity_type) /\ ~HasDelimiter(input.entity_type)) =>
              ret[1] = to_lowercase(input.entity_type)
        /\ (/\ ~HasDot(input.entity_type)
            /\ ~HasDot(input.entity_id)
            /\ IsSnake(input.entity_type)
            /\ IsSnake(input.entity_id)) =>
              ret = <<input.entity_type, input.entity_id>>
        /\ ~HasUppercase(ret[1]) /\ ~HasUppercase(ret[2])
        /\ (HasUppercase(input.entity_type) \/ HasUppercase(input.entity_id)) =>
              ret # <<input.entity_type, input.entity_id>>

(* The type "a" and the local id "aa" are recovered from the id "a.aa". *)
C24_Witness ==
    /\ op.name = "decompose_entity_id"
    /\ input.entity_type = <<"a">>
    /\ input.entity_id = <<"a", "a">>
    /\ ret = <<input.entity_type, input.entity_id>>

(* The source declares two entities that have a type and an id. *)
TwoDeclared ==
    /\ Len(input.entities) = 2
    /\ \A i \in 1..2 : input.entities[i].entity_type # <<>> /\ input.entities[i].id # <<>>

DeclaredTypeOf(i) == input.entities[i].entity_type[1]

LocalIdOf(i) == input.entities[i].id[1]

C30_TypeOfIdIsEntityType ==
    /\ op.name = "try_from" =>
          \A i \in DOMAIN ret :
              ret[i].ok =>
                  EntityType_from(decompose_entity_id(ret[i].value[1].id)[1])
                      = ret[i].value[1].entity_type
    /\ op.name = "list_by_type" =>
          \E i \in DOMAIN ret : ret[i] = op.entity[1]

(* The composite id of the chosen type with the local id is the id of an   *)
(* entity of the graph.                                                    *)
InUse(local_id) == compose_entity_id(input.chosen_type_str, local_id) \in DOMAIN entity_map

(* The ids the loop tries: the chosen id as it conforms, then with _1, _2, *)
(* .. appended.                                                            *)
Candidate(k) ==
    IF k = 0
    THEN conform_chosen_id(input.chosen_id)
    ELSE conform_chosen_id(input.chosen_id) \o <<"_">> \o to_decimal(k)

Returned == op.name = "return"

(* As the sources state it: the id returned is not in use. *)
C28_ReturnedIdIsUnused == Returned => ~InUse(ret.entity_id)

(* In the loop and after it, entity_id is the candidate that id_counter    *)
(* tells.                                                                  *)
LoopInvariant ==
    /\ ret.id_counter \in 1..IdCounterLimit
    /\ ret.chosen_id = Candidate(0)
    /\ ret.entity_id = Candidate(ret.id_counter - 1)

(* C28: compute_unique_entity_id returns after at most 999 turns of its    *)
(* loop, since id_counter starts at 1, grows by one with every turn and    *)
(* stays below 1001; what it returns is the first of the snake case form   *)
(* of the chosen id and that form with _1, _2, .., _999 appended whose     *)
(* composite id with the chosen type is not the id of an entity of the     *)
(* graph, and when all of these thousand ids are in use it returns the     *)
(* last of them, which is in use.                                          *)
C28_ReturnsFirstUnusedOfThousand ==
    /\ [](op.name \in {"while", "return"} => LoopInvariant)
    /\ [](Returned =>
            IF InUse(ret.entity_id)
            THEN ret.entity_id = Candidate(IdCounterLimit - 1)
            ELSE \A k \in 0..(IdCounterLimit - 1) :
                    ret.entity_id = Candidate(k) => \A j \in 0..(k - 1) : InUse(Candidate(j)))
    /\ [][/\ op.name = "while" => /\ op'.name \in {"while", "return"}
                                  /\ op'.name = "while" => ret'.id_counter = ret.id_counter + 1
                                  /\ op'.name = "return" => ret' = ret
          /\ op.name = "return" => FALSE]_vars

(* With john, john_1 and john_2 in use for persons, "John" gives john_3. *)
C28_Witness ==
    /\ Returned
    /\ input.chosen_type_str = person
    /\ input.chosen_id = <<"J", "o", "h", "n">>
    /\ Len(nodes) = 3
    /\ ret.entity_id = <<"j", "o", "h", "n", "_", "3">>
    /\ ~InUse(ret.entity_id)

Resolved == op.name = "return"

(* C26: resolve_field_reference returns in every graph, those whose field  *)
(* references form cycles of any length included; at no time has it        *)
(* visited more than 10 (entity, field) pairs, no pair twice; it leaves    *)
(* the graph as it is.                                                     *)
C26_ResolveTerminatesWithinDepth ==
    /\ [](op.name \in {"search_field_reference", "return"} =>
            /\ Len(ret.visited) <= DefaultMaxDepth
            /\ \A i, j \in DOMAIN ret.visited : i # j => ret.visited[i] # ret.visited[j]
            /\ ret.result = <<>> => Len(ret.visited) + ret.max_depth = DefaultMaxDepth)
    /\ [](Resolved => ret.result = <<resolve_field_reference(Graph, input.field_value)>>)
    /\ [][graph_vars' = graph_vars]_vars
    /\ <>Resolved

(* A cycle of 12 fields and a cycle of 3 fields: the first search ends at  *)
(* the depth, the second at the pair seen before.                          *)
C26_Witness ==
    /\ Resolved
    /\ stage = "built"
    /\ Len(nodes) = 1
    /\ input.field_value = FieldRef(1, ChainFieldIds[1])
    /\ \/ /\ DOMAIN nodes[1].fields = ChainFields(12)
          /\ nodes[1].fields[ChainFieldIds[12]] = FieldRef(1, ChainFieldIds[1])
          /\ ret.result = <<MaxDepthExceeded>>
          /\ Len(ret.visited) = 10
       \/ /\ DOMAIN nodes[1].fields = ChainFields(3)
          /\ nodes[1].fields[ChainFieldIds[3]] = FieldRef(1, ChainFieldIds[1])
          /\ ret.result = <<CyclicReference>>
          /\ Len(ret.visited) = 3

=============================================================================
